---- MODULE Spec2Model ----
(***************************************************************************)
(* Weather data collection: a binary search tree of heap-allocated         *)
(* WeatherRecord objects keyed by their Date (Bst.h, WeatherRecord.cpp,    *)
(* Date.cpp), a month-bucketed secondary index (Map.h) and the retrieval   *)
(* operations of WeatherDataCollection.cpp.                                *)
(*                                                                         *)
(* The heap is explicit: every object created with `new` lives at an       *)
(* address, pointers are addresses, NULL is the null pointer and `delete`  *)
(* removes the address from the heap.                                      *)
(***************************************************************************)
EXTENDS Integers, Sequences, FiniteSets, TLC

VARIABLES heap, root, dataByMonth, result, lastOp, inserted,
          otherBst, input, ret, app, otherCollection

\* `otherBst` is a second Bst object, `input` the arguments handed to a function
\* under test, `ret` the value the last call returned, `app` the
\* Assignment2App object that owns the collection and `otherCollection` a
\* second WeatherDataCollection; the operations of the collection leave the
\* five alone
auxVars == <<otherBst, input, ret, app, otherCollection>>

vars == <<heap, root, dataByMonth, result, lastOp, inserted, otherBst, input, ret,
          app, otherCollection>>

\* ------------------------------------------------------------------------
\* Bounds and input universes
\* ------------------------------------------------------------------------

\* number of addWeatherRecord calls explored
MaxInserts == 3

NULL == 0

\* Date::Date(int d, int m, int y, int h, int min)
Date(d, m, y, h, min) ==
    [type |-> "Date", day |-> d, month |-> m, year |-> y, hour |-> h, minute |-> min]

\* Date::Date(): 1/1/2000 00:00
DefaultDate == Date(1, 1, 2000, 0, 0)

\* Timestamps handed to the collection.  Nothing validates the fields of a
\* Date, so a month of 13 and a year of 0 are storable.
Dates ==
    { Date(1, 6, 2019, 0, 0),
      Date(1, 6, 2020, 0, 0),
      Date(1, 6, 2020, 0, 30),
      Date(2, 7, 2020, 9, 0),
      Date(1, 13, 2020, 0, 0),
      Date(1, 6, 0, 0, 0) }

\* <<windSpeed, temperature, solarRadiation>> of an incoming record
Measurements == { <<1, 2, 3>>, <<4, 5, 6>> }

\* arguments of the retrieval operations
QueryYears == {0, 2020}
QueryMonths == {0, 6, 13}

\* measurements a caller writes into a returned copy
Scribble == <<97, 98, 99>>

\* ------------------------------------------------------------------------
\* Heap
\* ------------------------------------------------------------------------

\* operator new: the lowest free address
Alloc(h) ==
    CHOOSE a \in 1..(Cardinality(DOMAIN h) + 1) :
        /\ a \notin DOMAIN h
        /\ \A b \in 1..(a - 1) : b \in DOMAIN h

New(h, obj) == h @@ (Alloc(h) :> obj)

\* operator delete on a set of addresses
Delete(h, as) == [a \in (DOMAIN h) \ as |-> h[a]]

\* ------------------------------------------------------------------------
\* Date and WeatherRecord comparison
\* ------------------------------------------------------------------------

\* Date::operator< that stops at the day and never looks at the time
Date_lt_DayOnly(a, b) ==
    IF a.year # b.year THEN a.year < b.year
    ELSE IF a.month # b.month THEN a.month < b.month
    ELSE a.day < b.day

\* Date::operator<
Date_lt(a, b) ==
    IF a.year # b.year THEN a.year < b.year
    ELSE IF a.month # b.month THEN a.month < b.month
    ELSE IF a.day # b.day THEN a.day < b.day
    ELSE IF a.hour # b.hour THEN a.hour < b.hour
    ELSE a.minute < b.minute

\* Date::operator>
Date_gt(a, b) == Date_lt(b, a)

\* Date::operator==
Date_eq(a, b) ==
    /\ a.day = b.day /\ a.month = b.month /\ a.year = b.year
    /\ a.hour = b.hour /\ a.minute = b.minute

\* record->date dereferenced
DateOf(h, r) == h[h[r].date]

\* WeatherRecord::operator<, operator>, operator==
WeatherRecord_lt(h, a, b) == Date_lt(DateOf(h, a), DateOf(h, b))
WeatherRecord_gt(h, a, b) == Date_gt(DateOf(h, a), DateOf(h, b))
WeatherRecord_eq(h, a, b) == Date_eq(DateOf(h, a), DateOf(h, b))

\* ------------------------------------------------------------------------
\* Bst<WeatherRecord>
\* ------------------------------------------------------------------------

\* Node<T>::Node(T* value)
Node(value) == [type |-> "Node", data |-> value, left |-> NULL, right |-> NULL]

\* insertRec with `else` in place of `else if (*value > *(node->data))`: an
\* equal key descends to the right
RECURSIVE insertRec_DupRight(_, _, _)
insertRec_DupRight(h, node, value) ==
    IF node = NULL
    THEN [heap |-> New(h, Node(value)), ret |-> Alloc(h)]
    ELSE IF WeatherRecord_lt(h, value, h[node].data)
    THEN LET sub == insertRec_DupRight(h, h[node].left, value)
         IN  [heap |-> [sub.heap EXCEPT ![node].left = sub.ret], ret |-> node]
    ELSE LET sub == insertRec_DupRight(h, h[node].right, value)
         IN  [heap |-> [sub.heap EXCEPT ![node].right = sub.ret], ret |-> node]

\* insertRec that overwrites the payload of a node with an equal key
RECURSIVE insertRec_Overwrite(_, _, _)
insertRec_Overwrite(h, node, value) ==
    IF node = NULL
    THEN [heap |-> New(h, Node(value)), ret |-> Alloc(h)]
    ELSE IF WeatherRecord_lt(h, value, h[node].data)
    THEN LET sub == insertRec_Overwrite(h, h[node].left, value)
         IN  [heap |-> [sub.heap EXCEPT ![node].left = sub.ret], ret |-> node]
    ELSE IF WeatherRecord_gt(h, value, h[node].data)
    THEN LET sub == insertRec_Overwrite(h, h[node].right, value)
         IN  [heap |-> [sub.heap EXCEPT ![node].right = sub.ret], ret |-> node]
    ELSE [heap |-> [h EXCEPT ![node].data = value], ret |-> node]

\* Bst<T>::insertRec: returns the heap after the call and the updated root
\* of the subtree
RECURSIVE insertRec(_, _, _)
insertRec(h, node, value) ==
    IF node = NULL
    THEN [heap |-> New(h, Node(value)), ret |-> Alloc(h)]
    ELSE IF WeatherRecord_lt(h, value, h[node].data)
    THEN LET sub == insertRec(h, h[node].left, value)
         IN  [heap |-> [sub.heap EXCEPT ![node].left = sub.ret], ret |-> node]
    ELSE IF WeatherRecord_gt(h, value, h[node].data)
    THEN LET sub == insertRec(h, h[node].right, value)
         IN  [heap |-> [sub.heap EXCEPT ![node].right = sub.ret], ret |-> node]
    ELSE [heap |-> h, ret |-> node]

\* insert that rotates the root to the left when the insert left a chain of
\* three right links at the root
insert_Rotating(h, rt, value) ==
    LET ins == insertRec(h, rt, value)
        hh  == ins.heap
        r   == ins.ret
    IN  IF /\ hh[r].left = NULL
           /\ hh[r].right # NULL
           /\ hh[hh[r].right].left = NULL
           /\ hh[hh[r].right].right # NULL
        THEN [heap |-> [hh EXCEPT ![r].right = NULL, ![hh[r].right].left = r],
              ret  |-> hh[r].right]
        ELSE ins

\* Bst<T>::insert: root = insertRec(root, value)
insert(h, rt, value) == insertRec(h, rt, value)

\* Bst<T>::sizeRec
RECURSIVE sizeRec(_, _)
sizeRec(h, node) ==
    IF node = NULL THEN 0
    ELSE 1 + sizeRec(h, h[node].left) + sizeRec(h, h[node].right)

\* Bst<T>::size
size == sizeRec(heap, root)

Max(a, b) == IF a > b THEN a ELSE b

\* Bst<T>::heightRec
RECURSIVE heightRec(_, _)
heightRec(h, node) ==
    IF node = NULL THEN -1
    ELSE 1 + Max(heightRec(h, h[node].left), heightRec(h, h[node].right))

\* Bst<T>::height
height == heightRec(heap, root)

\* Bst<T>::checkInvariantRec, with *min and *max given as Date values
RECURSIVE checkInvariantRec(_, _, _, _)
checkInvariantRec(h, node, min, max) ==
    IF node = NULL THEN TRUE
    ELSE IF \/ ~ Date_gt(DateOf(h, h[node].data), min)
            \/ ~ Date_lt(DateOf(h, h[node].data), max)
    THEN FALSE
    ELSE /\ checkInvariantRec(h, h[node].left, min, DateOf(h, h[node].data))
         /\ checkInvariantRec(h, h[node].right, DateOf(h, h[node].data), max)

\* Bst<T>::checkInvariant: defaultMin and defaultMax are two
\* default-constructed T, hence two equal keys
checkInvariant ==
    LET defaultMin == DefaultDate
        defaultMax == DefaultDate
    IN  checkInvariantRec(heap, root, defaultMin, defaultMax)

\* inOrderRec that visits the node before its left subtree
RECURSIVE inOrderRec_NodeFirst(_, _)
inOrderRec_NodeFirst(h, node) ==
    IF node = NULL THEN << >>
    ELSE << h[node].data >> \o inOrderRec_NodeFirst(h, h[node].left)
             \o inOrderRec_NodeFirst(h, h[node].right)

\* Bst<T>::inOrderRec(node, visit) with a visitor that records the address
\* it is handed: the sequence of node->data in visiting order
RECURSIVE inOrderRec(_, _)
inOrderRec(h, node) ==
    IF node = NULL THEN << >>
    ELSE inOrderRec(h, h[node].left) \o << h[node].data >>
             \o inOrderRec(h, h[node].right)

\* Bst<T>::inOrder(visit)
inOrder == inOrderRec(heap, root)

\* ------------------------------------------------------------------------
\* Collecting visitors (WeatherRecord.cpp)
\* ------------------------------------------------------------------------

\* a copy constructor that copies the date pointer instead of the Date
CopyRecord_Shallow(h, other) ==
    [heap |-> New(h, h[other]), ret |-> Alloc(h)]

\* WeatherRecord::WeatherRecord(const WeatherRecord& other): a new Date and
\* a new WeatherRecord; returns the heap and the address of the copy
CopyRecord(h, other) ==
    LET h1 == New(h, h[h[other].date])
        d  == Alloc(h)
    IN  [heap |-> New(h1, [h[other] EXCEPT !.date = d]), ret |-> Alloc(h1)]

\* ctx->records->push_back(p)
PushBack(h, vec, p) == [h EXCEPT ![vec].elems = Append(@, p)]

\* collectByMonth(record, context)
collectByMonth(h, record, ctx) ==
    IF DateOf(h, record).month = ctx.targetMonth
    THEN LET c == CopyRecord(h, record)
         IN  PushBack(c.heap, ctx.records, c.ret)
    ELSE h

\* collectByYearMonth that forgets to compare the year
collectByYearMonth_MonthOnly(h, record, ctx) ==
    IF DateOf(h, record).month = ctx.targetMonth
    THEN LET c == CopyRecord(h, record)
         IN  PushBack(c.heap, ctx.records, c.ret)
    ELSE h

\* collectByYearMonth(record, context)
collectByYearMonth(h, record, ctx) ==
    IF /\ DateOf(h, record).year = ctx.targetYear
       /\ DateOf(h, record).month = ctx.targetMonth
    THEN LET c == CopyRecord(h, record)
         IN  PushBack(c.heap, ctx.records, c.ret)
    ELSE h

\* a visitor that stores the pointer it is handed in the vector of the
\* context, copying nothing
recordVisit(h, record, ctx) == PushBack(h, ctx.records, record)

\* the call through the function pointer `visit`
Visit(visit, h, record, ctx) ==
    IF visit = "collectByMonth" THEN collectByMonth(h, record, ctx)
    ELSE IF visit = "collectByYearMonth" THEN collectByYearMonth(h, record, ctx)
    ELSE recordVisit(h, record, ctx)

\* inOrderRec(node, visit, context) that walks the right subtree first
RECURSIVE inOrderRecCtx_RightFirst(_, _, _, _)
inOrderRecCtx_RightFirst(h, node, visit, ctx) ==
    IF node = NULL THEN h
    ELSE LET h1 == inOrderRecCtx_RightFirst(h, h[node].right, visit, ctx)
             h2 == Visit(visit, h1, h[node].data, ctx)
         IN  inOrderRecCtx_RightFirst(h2, h[node].left, visit, ctx)

\* Bst<T>::inOrderRec(node, visit, context): returns the heap after the walk
RECURSIVE inOrderRecCtx(_, _, _, _)
inOrderRecCtx(h, node, visit, ctx) ==
    IF node = NULL THEN h
    ELSE LET h1 == inOrderRecCtx(h, h[node].left, visit, ctx)
             h2 == Visit(visit, h1, h[node].data, ctx)
         IN  inOrderRecCtx(h2, h[node].right, visit, ctx)

\* Bst<T>::inOrder(visit, context)
inOrderCtx(h, rt, visit, ctx) == inOrderRecCtx(h, rt, visit, ctx)

\* struct CollectionContext
CollectionContext(records, targetMonth, targetYear) ==
    [type |-> "CollectionContext", records |-> records,
     targetMonth |-> targetMonth, targetYear |-> targetYear]

\* new std::vector<WeatherRecord*>()
EmptyVector == [type |-> "Vector", elems |-> << >>]

\* ------------------------------------------------------------------------
\* WeatherDataCollection
\* ------------------------------------------------------------------------

\* Map<K,V>::contains
Map_contains(m, key) == key \in DOMAIN m

\* Map<K,V>::insert: (*internalMap)[*key] = *value
Map_insert(m, key, value) ==
    IF key \in DOMAIN m THEN [m EXCEPT ![key] = value] ELSE m @@ (key :> value)

\* WeatherDataCollection::addWeatherRecord: returns the heap, the root of
\* the tree and the month index after the call
addWeatherRecord(h, rt, idx, record) ==
    LET ins   == insert(h, rt, record)
        month == DateOf(ins.heap, record).month
        \* the vector made with `new` is copied into the map and never freed
        h1    == IF ~ Map_contains(idx, month)
                 THEN New(ins.heap, EmptyVector) ELSE ins.heap
        idx1  == IF ~ Map_contains(idx, month)
                 THEN Map_insert(idx, month, EmptyVector.elems) ELSE idx
    IN  [heap |-> h1, root |-> ins.ret,
         dataByMonth |-> [idx1 EXCEPT ![month] = Append(@, record)]]

\* WeatherDataCollection::getDataForYearMonth
getDataForYearMonth(h, rt, year, month) ==
    LET h1  == New(h, EmptyVector)
        res == Alloc(h)
        ctx == CollectionContext(res, month, year)
    IN  [heap |-> inOrderCtx(h1, rt, "collectByYearMonth", ctx), ret |-> res]

\* getDataForMonth that copies the bucket of the month index instead of
\* walking the tree
RECURSIVE CopyEach(_, _, _)
CopyEach(h, vec, refs) ==
    IF refs = << >> THEN h
    ELSE LET c == CopyRecord(h, Head(refs))
         IN  CopyEach(PushBack(c.heap, vec, c.ret), vec, Tail(refs))

getDataForMonth_FromIndex(h, rt, month) ==
    IF month < 1 \/ month > 12 THEN [heap |-> h, ret |-> NULL]
    ELSE LET h1     == New(h, EmptyVector)
             vec    == Alloc(h)
             bucket == IF month \in DOMAIN dataByMonth
                       THEN dataByMonth[month] ELSE << >>
         IN  [heap |-> CopyEach(h1, vec, bucket), ret |-> vec]

\* getDataForMonth without the range check on the month
getDataForMonth_NoGuard(h, rt, month) ==
    LET h1      == New(h, EmptyVector)
        vec     == Alloc(h)
        h2      == New(h1, CollectionContext(vec, month, 0))
        context == Alloc(h1)
        h3      == inOrderCtx(h2, rt, "collectByMonth", h2[context])
        results == h3[context].records
    IN  [heap |-> Delete(h3, {context}), ret |-> results]

\* WeatherDataCollection::getDataForMonth (callers pass the address of an
\* int, so the null-pointer test of the argument never fires)
getDataForMonth(h, rt, month) ==
    IF month < 1 \/ month > 12 THEN [heap |-> h, ret |-> NULL]
    ELSE LET h1      == New(h, EmptyVector)
             vec     == Alloc(h)
             h2      == New(h1, CollectionContext(vec, month, 0))
             context == Alloc(h1)
             h3      == inOrderCtx(h2, rt, "collectByMonth", h2[context])
             results == h3[context].records
         IN  [heap |-> Delete(h3, {context}), ret |-> results]

\* WeatherDataCollection::getDataForSpecificMonthYear
getDataForSpecificMonthYear(h, rt, year, month) ==
    IF month < 1 \/ month > 12 \/ year < 1 THEN [heap |-> h, ret |-> NULL]
    ELSE LET h1      == New(h, EmptyVector)
             vec     == Alloc(h)
             h2      == New(h1, CollectionContext(vec, month, year))
             context == Alloc(h1)
             h3      == inOrderCtx(h2, rt, "collectByYearMonth", h2[context])
             results == h3[context].records
         IN  [heap |-> Delete(h3, {context}), ret |-> results]

\* ------------------------------------------------------------------------
\* State machine
\* ------------------------------------------------------------------------

NoResult == [held |-> FALSE, ptr |-> NULL]

\* no second Bst object has been constructed
NoOther == [live |-> FALSE, root |-> NULL, inserts |-> 0]

\* nothing handed in, nothing returned
NoValue == [kind |-> "none"]

\* no Assignment2App object runs the collection
NoApp == [running |-> FALSE, dataLoaded |-> FALSE, choices |-> 0]

\* no second WeatherDataCollection has been constructed
NoCollection == [live |-> FALSE, root |-> NULL, dataByMonth |-> << >>]

Op(op, year, month) == [op |-> op, year |-> year, month |-> month]

\* WeatherDataCollection::WeatherDataCollection(): an empty tree and an
\* empty map; no retrieval result is held by a caller
Init ==
    /\ heap = << >>
    /\ root = NULL
    /\ dataByMonth = << >>
    /\ result = NoResult
    /\ lastOp = Op("init", 0, 0)
    /\ inserted = << >>
    /\ otherBst = NoOther
    /\ app = NoApp
    /\ otherCollection = NoCollection
    /\ input = NoValue
    /\ ret = NoValue

\* A caller builds a record on the heap (new Date, new WeatherRecord, as in
\* loadFromFiles) and passes it to addWeatherRecord.
AddWeatherRecord(d, m) ==
    /\ Len(inserted) < MaxInserts
    /\ ~ result.held
    /\ LET h1     == New(heap, d)
           date   == Alloc(heap)
           h2     == New(h1, [type |-> "WeatherRecord", date |-> date,
                              windSpeed |-> m[1], temperature |-> m[2],
                              solarRadiation |-> m[3]])
           record == Alloc(h1)
           r      == addWeatherRecord(h2, root, dataByMonth, record)
       IN  /\ heap' = r.heap
           /\ root' = r.root
           /\ dataByMonth' = r.dataByMonth
           /\ inserted' = Append(inserted, [h2[record] EXCEPT !.date = d])
    /\ lastOp' = Op("addWeatherRecord", d.year, d.month)
    /\ UNCHANGED result
    /\ UNCHANGED auxVars

\* A caller obtains a result and holds it until it releases it.
GetDataForMonth(month) ==
    /\ ~ result.held
    /\ LET r == getDataForMonth(heap, root, month)
       IN  /\ heap' = r.heap
           /\ result' = [held |-> TRUE, ptr |-> r.ret]
    /\ lastOp' = Op("getDataForMonth", 0, month)
    /\ UNCHANGED <<root, dataByMonth, inserted>>
    /\ UNCHANGED auxVars

GetDataForYearMonth(year, month) ==
    /\ ~ result.held
    /\ LET r == getDataForYearMonth(heap, root, year, month)
       IN  /\ heap' = r.heap
           /\ result' = [held |-> TRUE, ptr |-> r.ret]
    /\ lastOp' = Op("getDataForYearMonth", year, month)
    /\ UNCHANGED <<root, dataByMonth, inserted>>
    /\ UNCHANGED auxVars

GetDataForSpecificMonthYear(year, month) ==
    /\ ~ result.held
    /\ LET r == getDataForSpecificMonthYear(heap, root, year, month)
       IN  /\ heap' = r.heap
           /\ result' = [held |-> TRUE, ptr |-> r.ret]
    /\ lastOp' = Op("getDataForSpecificMonthYear", year, month)
    /\ UNCHANGED <<root, dataByMonth, inserted>>
    /\ UNCHANGED auxVars

\* The caller writes through the pointers of a returned record: the three
\* measurements and, through its date, SetMonth.
ModifyResult(i) ==
    /\ result.held
    /\ result.ptr # NULL
    /\ i \in 1..Len(heap[result.ptr].elems)
    /\ LET rec == heap[result.ptr].elems[i]
       IN  /\ heap[rec].windSpeed # Scribble[1]
           /\ heap' = [heap EXCEPT ![rec].windSpeed = Scribble[1],
                                  ![rec].temperature = Scribble[2],
                                  ![rec].solarRadiation = Scribble[3],
                                  ![heap[rec].date].month = 12]
    /\ lastOp' = Op("modifyResult", 0, 0)
    /\ UNCHANGED <<root, dataByMonth, result, inserted>>
    /\ UNCHANGED auxVars

\* The caller releases a result as the callers in WeatherDataCollection.cpp
\* do: delete each record (~WeatherRecord deletes its date), then the vector.
FreeResult ==
    /\ result.held
    /\ heap' = IF result.ptr = NULL THEN heap
               ELSE LET recs == {heap[result.ptr].elems[i] :
                                     i \in 1..Len(heap[result.ptr].elems)}
                    IN  Delete(heap, recs \cup {heap[r].date : r \in recs}
                                          \cup {result.ptr})
    /\ result' = NoResult
    /\ lastOp' = Op("freeResult", 0, 0)
    /\ UNCHANGED <<root, dataByMonth, inserted>>
    /\ UNCHANGED auxVars

Next ==
    \/ \E d \in Dates, m \in Measurements : AddWeatherRecord(d, m)
    \/ \E month \in QueryMonths : GetDataForMonth(month)
    \/ \E year \in QueryYears, month \in QueryMonths :
           GetDataForYearMonth(year, month)
    \/ \E year \in QueryYears, month \in QueryMonths :
           GetDataForSpecificMonthYear(year, month)
    \/ \E i \in 1..MaxInserts : ModifyResult(i)
    \/ FreeResult

Spec == Init /\ [][Next]_vars

\* ------------------------------------------------------------------------
\* Vocabulary of the properties
\* ------------------------------------------------------------------------

\* a timestamp as the tuple the data model orders lexicographically
Stamp(d) == <<d.year, d.month, d.day, d.hour, d.minute>>

\* strict lexicographic order on timestamps
Precedes(s, t) ==
    \E i \in 1..5 : s[i] < t[i] /\ \A j \in 1..(i - 1) : s[j] = t[j]

\* the object at an address, or a marker when the address was deleted
Deref(h, a) == IF a \in DOMAIN h THEN h[a] ELSE [type |-> "deleted"]

\* addresses of the nodes of the subtree below `node`
RECURSIVE NodesOf(_, _)
NodesOf(h, node) ==
    IF node = NULL \/ node \notin DOMAIN h THEN {}
    ELSE {node} \cup NodesOf(h, h[node].left) \cup NodesOf(h, h[node].right)

StoreNodes == NodesOf(heap, root)

\* the records the store owns
StoreRecords == {heap[n].data : n \in StoreNodes}

\* timestamp of the record held by node n
KeyOf(n) == Stamp(Deref(heap, Deref(heap, heap[n].data).date))

\* a record by value: its timestamp and its three measurements
Content(h, r) == [Deref(h, r) EXCEPT !.date = Deref(h, Deref(h, r).date)]

\* everything the store owns (nodes, records, dates) with its contents
StoreAddrs ==
    StoreNodes \cup StoreRecords \cup {Deref(heap, r).date : r \in StoreRecords}

StoreImage == [a \in StoreAddrs |-> Deref(heap, a)]

\* the records of the result a caller holds (none for the null pointer)
ResultElems ==
    IF result.held /\ result.ptr # NULL THEN heap[result.ptr].elems ELSE << >>

ResultRecords == {ResultElems[i] : i \in 1..Len(ResultElems)}

ResultContents == {Content(heap, r) : r \in ResultRecords}

StoredContents == {Content(heap, r) : r \in StoreRecords}

ValidMonth(m) == m \in 1..12

\* ------------------------------------------------------------------------
\* C1: after any sequence of inserts the tree is ordered: every record in a
\* node's left subtree has a strictly smaller timestamp, every record in its
\* right subtree a strictly larger one, and no two nodes hold equal
\* timestamps.
\* ------------------------------------------------------------------------
C1_OrderingInvariant ==
    /\ \A n \in StoreNodes :
          /\ \A l \in NodesOf(heap, heap[n].left) : Precedes(KeyOf(l), KeyOf(n))
          /\ \A r \in NodesOf(heap, heap[n].right) : Precedes(KeyOf(n), KeyOf(r))
    /\ \A n1, n2 \in StoreNodes : KeyOf(n1) = KeyOf(n2) => n1 = n2

\* three inserts, one of them a duplicate timestamp, left two nodes
C1_Witness ==
    /\ Len(inserted) = 3
    /\ size = 2
    /\ \E i, j \in 1..3 : i < j /\ inserted[i].date = inserted[j].date

\* ------------------------------------------------------------------------
\* C2: checkInvariant() returns true after every insert, on the empty and
\* on every non-empty store.
\* ------------------------------------------------------------------------
C2_CheckInvariantTrue == checkInvariant

\* ------------------------------------------------------------------------
\* C3: inserting a record whose timestamp is already stored changes neither
\* size(), nor the shape of the tree, nor any stored record, whatever
\* measurements the incoming record carries.
\* ------------------------------------------------------------------------
C3_DuplicateInsertIsNoOp ==
    [][ ( /\ lastOp'.op = "addWeatherRecord"
          /\ \E n \in StoreNodes :
                 KeyOf(n) = Stamp(inserted'[Len(inserted')].date) )
        => ( /\ size' = size
             /\ root' = root
             /\ StoreImage' = StoreImage ) ]_vars

\* the last insert repeated a stored timestamp with other measurements
C3_Witness ==
    /\ lastOp.op = "addWeatherRecord"
    /\ Len(inserted) >= 2
    /\ \E i \in 1..(Len(inserted) - 1) :
          /\ inserted[i].date = inserted[Len(inserted)].date
          /\ inserted[i].windSpeed # inserted[Len(inserted)].windSpeed

\* ------------------------------------------------------------------------
\* C4: records with pairwise distinct timestamps, inserted in any order,
\* give size() equal to their number and an in-order sequence that is
\* exactly these records in ascending timestamp order.
\* ------------------------------------------------------------------------
DistinctStamps(seq) ==
    \A i, j \in 1..Len(seq) : seq[i].date = seq[j].date => i = j

C4_OrderIndependent ==
    DistinctStamps(inserted) =>
        LET visited == [i \in 1..Len(inOrder) |-> Content(heap, inOrder[i])]
        IN  /\ size = Len(inserted)
            /\ Len(visited) = Len(inserted)
            /\ {visited[i] : i \in 1..Len(visited)}
                   = {inserted[i] : i \in 1..Len(inserted)}
            /\ \A i, j \in 1..Len(visited) :
                   i < j => Precedes(Stamp(visited[i].date), Stamp(visited[j].date))

\* three distinct timestamps inserted in an order that is not ascending
C4_Witness ==
    /\ Len(inserted) = 3
    /\ DistinctStamps(inserted)
    /\ Precedes(Stamp(inserted[3].date), Stamp(inserted[1].date))
    /\ Precedes(Stamp(inserted[1].date), Stamp(inserted[2].date))

\* ------------------------------------------------------------------------
\* C5: every reference in the month index refers to a record held by a node
\* of the store; a record rejected as a duplicate is not appended.
\* ------------------------------------------------------------------------
C5_IndexRefersToStore ==
    \A m \in DOMAIN dataByMonth :
        \A i \in 1..Len(dataByMonth[m]) : dataByMonth[m][i] \in StoreRecords

\* ------------------------------------------------------------------------
\* C6: for year >= 1 and month in 1..12 the year-and-month query returns
\* exactly the stored records of that year and month, each once, and no
\* others.
\* ------------------------------------------------------------------------
C6_YearMonthExact ==
    ( /\ lastOp.op \in {"getDataForSpecificMonthYear", "getDataForYearMonth"}
      /\ lastOp.year >= 1
      /\ ValidMonth(lastOp.month) )
    => /\ result.held
       /\ result.ptr # NULL
       /\ ResultContents = {c \in StoredContents :
                               c.date.year = lastOp.year /\ c.date.month = lastOp.month}
       /\ Len(ResultElems) = Cardinality(ResultContents)

\* June 2020 was asked for while the store also holds June 2019
C6_Witness ==
    /\ lastOp = Op("getDataForSpecificMonthYear", 2020, 6)
    /\ Len(ResultElems) = 2
    /\ \E c \in StoredContents : c.date.year = 2019 /\ c.date.month = 6

\* ------------------------------------------------------------------------
\* C7: for month in 1..12 getDataForMonth returns exactly the stored records
\* of that month, all years combined, each once; it reads the store, so a
\* record that only the index refers to is never in the result.
\* ------------------------------------------------------------------------
C7_MonthExact ==
    ( lastOp.op = "getDataForMonth" /\ ValidMonth(lastOp.month) )
    => /\ result.held
       /\ result.ptr # NULL
       /\ ResultContents = {c \in StoredContents : c.date.month = lastOp.month}
       /\ Len(ResultElems) = Cardinality(ResultContents)

\* June was asked for, two years are stored, and the index bucket of June
\* holds a reference to a rejected duplicate
C7_Witness ==
    /\ lastOp = Op("getDataForMonth", 0, 6)
    /\ \E c1, c2 \in ResultContents : c1.date.year # c2.date.year
    /\ \E i \in 1..Len(dataByMonth[6]) : dataByMonth[6][i] \notin StoreRecords

\* ------------------------------------------------------------------------
\* C8: the month query with a month outside 1..12 returns no record
\* (and returns: it does not walk the tree), whatever the store holds.
\* ------------------------------------------------------------------------
C8_InvalidMonthEmpty ==
    ( lastOp.op = "getDataForMonth" /\ ~ ValidMonth(lastOp.month) )
    => /\ result.held
       /\ ResultRecords = {}

\* month 13 was asked for while the store holds a record of month 13
C8_Witness ==
    /\ lastOp = Op("getDataForMonth", 0, 13)
    /\ \E c \in StoredContents : c.date.month = 13

\* ------------------------------------------------------------------------
\* C9: both retrievals by year and month return no record when year < 1 or
\* month is outside 1..12.
\* ------------------------------------------------------------------------
C9_InvalidYearMonthEmpty ==
    ( /\ lastOp.op \in {"getDataForSpecificMonthYear", "getDataForYearMonth"}
      /\ (lastOp.year < 1 \/ ~ ValidMonth(lastOp.month)) )
    => ResultRecords = {}

\* ------------------------------------------------------------------------
\* C10: only addWeatherRecord changes the store or the month index; a
\* retrieval returns freshly allocated records that the store and the index
\* do not refer to, so writing to or releasing a result leaves the store as
\* it was.
\* ------------------------------------------------------------------------
IndexRecords ==
    UNION {{dataByMonth[m][i] : i \in 1..Len(dataByMonth[m])} : m \in DOMAIN dataByMonth}

C10_QueriesDetached ==
    [][ lastOp'.op # "addWeatherRecord"
        => ( /\ root' = root
             /\ StoreImage' = StoreImage
             /\ dataByMonth' = dataByMonth
             /\ \A r \in ResultRecords' :
                   /\ r \notin StoreAddrs' \cup IndexRecords'
                   /\ heap'[r].date \notin StoreAddrs'
                   /\ (~ result.held => r \notin DOMAIN heap) ) ]_vars

\* a caller holds a result of two copies and has written to one of them
C10_Witness ==
    /\ lastOp.op = "modifyResult"
    /\ Len(ResultElems) = 2
    /\ \E r \in ResultRecords : heap[r].windSpeed = Scribble[1]

\* ========================================================================
\* Record comparison (Date.cpp, WeatherRecord.cpp)
\* ========================================================================

\* timestamps that differ in each of the five fields
CmpDates ==
    { Date(d, m, y, h, min) :
        d \in {1, 2}, m \in {6, 7}, y \in {2019, 2020}, h \in {0, 9}, min \in {0, 30} }

\* new Date(...) followed by new WeatherRecord(date, ws, temp, sr), as in
\* loadFromFiles; returns the heap and the address of the record
NewRecord(h, d, m) ==
    LET h1 == New(h, d)
    IN  [heap |-> New(h1, [type |-> "WeatherRecord", date |-> Alloc(h),
                           windSpeed |-> m[1], temperature |-> m[2],
                           solarRadiation |-> m[3]]),
         ret |-> Alloc(h1)]

\* two records on the heap, the operands of the comparison
InitCompare ==
    /\ \E da, db \in CmpDates, ma, mb \in Measurements :
          LET ra == NewRecord(<< >>, da, ma)
              rb == NewRecord(ra.heap, db, mb)
          IN  /\ heap = rb.heap
              /\ input = [kind |-> "records", a |-> ra.ret, b |-> rb.ret]
    /\ root = NULL
    /\ dataByMonth = << >>
    /\ result = NoResult
    /\ lastOp = Op("init", 0, 0)
    /\ inserted = << >>
    /\ otherBst = NoOther
    /\ app = NoApp
    /\ otherCollection = NoCollection
    /\ ret = NoValue

\* *a < *b, *a > *b, *a == *b and *b < *a on the two records
CompareRecords ==
    /\ lastOp.op = "init"
    /\ ret' = [kind   |-> "comparison",
               lt     |-> WeatherRecord_lt(heap, input.a, input.b),
               gt     |-> WeatherRecord_gt(heap, input.a, input.b),
               eq     |-> WeatherRecord_eq(heap, input.a, input.b),
               ltSwap |-> WeatherRecord_lt(heap, input.b, input.a)]
    /\ lastOp' = Op("compare", 0, 0)
    /\ UNCHANGED <<heap, root, dataByMonth, result, inserted, otherBst, input>>
    /\ UNCHANGED <<app, otherCollection>>

NextCompare == CompareRecords

SpecCompare == InitCompare /\ [][NextCompare]_vars

\* ------------------------------------------------------------------------
\* C11: record comparison is the lexicographic comparison of the timestamps
\* on (year, month, day, hour, minute) and of nothing else: exactly one of
\* a < b, a == b, a > b holds, a == b holds exactly when the five fields are
\* equal whatever the measurements, and a > b exactly when b < a.
\* ------------------------------------------------------------------------
C11_ComparisonIsLexicographic ==
    lastOp.op = "compare" =>
        LET sa == Stamp(Content(heap, input.a).date)
            sb == Stamp(Content(heap, input.b).date)
        IN  /\ ret.lt = Precedes(sa, sb)
            /\ ret.eq = (sa = sb)
            /\ ret.gt = Precedes(sb, sa)
            /\ ret.gt = ret.ltSwap
            /\ Cardinality({k \in {"lt", "eq", "gt"} : ret[k]}) = 1

\* equal timestamps with different measurements compared equal
C11_Witness ==
    /\ lastOp.op = "compare"
    /\ Content(heap, input.a).date = Content(heap, input.b).date
    /\ heap[input.a].windSpeed # heap[input.b].windSpeed
    /\ ret.eq

\* ========================================================================
\* Bst<WeatherRecord> on its own: search, traversals, copying (Bst.h)
\* ========================================================================

\* searchRec that always descends to the left when the key differs
RECURSIVE searchRec_LeftOnly(_, _, _)
searchRec_LeftOnly(h, node, value) ==
    IF node = NULL \/ WeatherRecord_eq(h, h[node].data, value) THEN node
    ELSE searchRec_LeftOnly(h, h[node].left, value)

\* Bst<T>::searchRec
RECURSIVE searchRec(_, _, _)
searchRec(h, node, value) ==
    IF node = NULL \/ WeatherRecord_eq(h, h[node].data, value) THEN node
    ELSE IF WeatherRecord_lt(h, value, h[node].data)
    THEN searchRec(h, h[node].left, value)
    ELSE searchRec(h, h[node].right, value)

\* Bst<T>::search
search(h, rt, value) == searchRec(h, rt, value)

\* Bst<T>::preOrderRec(node, visit): the node->data handed to the visitor,
\* in visiting order
RECURSIVE preOrderRec(_, _)
preOrderRec(h, node) ==
    IF node = NULL THEN << >>
    ELSE << h[node].data >> \o preOrderRec(h, h[node].left)
             \o preOrderRec(h, h[node].right)

\* Bst<T>::postOrderRec(node, visit)
RECURSIVE postOrderRec(_, _)
postOrderRec(h, node) ==
    IF node = NULL THEN << >>
    ELSE postOrderRec(h, h[node].left) \o postOrderRec(h, h[node].right)
             \o << h[node].data >>

\* copyTreeRec that hands the source's record to the new node
RECURSIVE copyTreeRec_ShareData(_, _)
copyTreeRec_ShareData(h, node) ==
    IF node = NULL THEN [heap |-> h, ret |-> NULL]
    ELSE LET h1      == New(h, Node(h[node].data))
             newNode == Alloc(h)
             l       == copyTreeRec_ShareData(h1, h[node].left)
             h2      == [l.heap EXCEPT ![newNode].left = l.ret]
             r       == copyTreeRec_ShareData(h2, h[node].right)
         IN  [heap |-> [r.heap EXCEPT ![newNode].right = r.ret], ret |-> newNode]

\* Bst<T>::copyTreeRec: returns the heap and the root of the copy
RECURSIVE copyTreeRec(_, _)
copyTreeRec(h, node) ==
    IF node = NULL THEN [heap |-> h, ret |-> NULL]
    ELSE LET c       == CopyRecord(h, h[node].data)
             h1      == New(c.heap, Node(c.ret))
             newNode == Alloc(c.heap)
             l       == copyTreeRec(h1, h[node].left)
             h2      == [l.heap EXCEPT ![newNode].left = l.ret]
             r       == copyTreeRec(h2, h[node].right)
         IN  [heap |-> [r.heap EXCEPT ![newNode].right = r.ret], ret |-> newNode]

\* Bst<T>::deleteTreeRec: ~Node deletes the record, ~WeatherRecord its date
RECURSIVE deleteTreeRec(_, _)
deleteTreeRec(h, node) ==
    IF node = NULL THEN h
    ELSE LET h1 == deleteTreeRec(h, h[node].left)
             h2 == deleteTreeRec(h1, h[node].right)
         IN  Delete(h2, {node, h[node].data, h[h[node].data].date})

\* the Bst objects of this specification and the traversal entry points
BstNames == {"this", "other"}
MaxBstInserts == 3
BstDates == { Date(1, 6, 2019, 0, 0), Date(1, 6, 2020, 0, 0), Date(1, 6, 2020, 0, 30) }
SearchKeys == BstDates \cup { Date(2, 7, 2020, 9, 0) }
Orders == {"inOrder", "preOrder", "postOrder", "inOrderCtx"}

RootOf(name) == IF name = "this" THEN root ELSE otherBst.root

\* Bst<T>::Bst(): one empty tree
InitBst ==
    /\ heap = << >>
    /\ root = NULL
    /\ dataByMonth = << >>
    /\ result = NoResult
    /\ lastOp = Op("init", 0, 0)
    /\ inserted = << >>
    /\ otherBst = NoOther
    /\ app = NoApp
    /\ otherCollection = NoCollection
    /\ input = NoValue
    /\ ret = NoValue

\* Bst<T>::insert on one of the two trees, with a record made by the caller
BstInsert(name, d, m) ==
    /\ Len(inserted) + otherBst.inserts < MaxBstInserts
    /\ name = "other" => otherBst.live
    /\ LET rec == NewRecord(heap, d, m)
           ins == insert(rec.heap, RootOf(name), rec.ret)
       IN  /\ heap' = ins.heap
           /\ IF name = "this"
              THEN /\ root' = ins.ret
                   /\ inserted' = Append(inserted, Content(rec.heap, rec.ret))
                   /\ UNCHANGED otherBst
              ELSE /\ otherBst' = [otherBst EXCEPT !.root = ins.ret,
                                                    !.inserts = @ + 1]
                   /\ UNCHANGED <<root, inserted>>
    /\ lastOp' = Op("insert", d.year, d.month)
    /\ input' = [kind |-> "insert", into |-> name]
    /\ ret' = NoValue
    /\ UNCHANGED <<dataByMonth, result>>
    /\ UNCHANGED <<app, otherCollection>>

\* Bst<T>::search with a key record the caller builds and deletes again
Search(d) ==
    /\ LET key == NewRecord(heap, d, <<0, 0, 0>>)
       IN  ret' = [kind |-> "node", node |-> search(key.heap, root, key.ret)]
    /\ input' = [kind |-> "key", date |-> d]
    /\ lastOp' = Op("search", d.year, d.month)
    /\ UNCHANGED <<heap, root, dataByMonth, result, inserted, otherBst>>
    /\ UNCHANGED <<app, otherCollection>>

\* Bst<T>::inOrder / preOrder / postOrder with a visitor that notes the
\* pointer it is handed, and inOrder(visit, context) with recordVisit
Traverse(order) ==
    /\ ret' = [kind |-> "visits",
               seq  |-> CASE order = "inOrder"   -> inOrderRec(heap, root)
                          [] order = "preOrder"  -> preOrderRec(heap, root)
                          [] order = "postOrder" -> postOrderRec(heap, root)
                          [] OTHER ->
                               LET h1  == New(heap, EmptyVector)
                                   vec == Alloc(heap)
                                   ctx == CollectionContext(vec, 0, 0)
                               IN  inOrderCtx(h1, root, "recordVisit", ctx)[vec].elems]
    /\ input' = [kind |-> "order", order |-> order]
    /\ lastOp' = Op("traverse", 0, 0)
    /\ UNCHANGED <<heap, root, dataByMonth, result, inserted, otherBst>>
    /\ UNCHANGED <<app, otherCollection>>

\* Bst<T>::Bst(const Bst<T>& other): the second tree is built from the first
CopyConstruct ==
    /\ ~ otherBst.live
    /\ LET c == copyTreeRec(heap, root)
       IN  /\ heap' = c.heap
           /\ otherBst' = [otherBst EXCEPT !.live = TRUE, !.root = c.ret]
    /\ input' = [kind |-> "copy", dst |-> "other", src |-> "this"]
    /\ lastOp' = Op("copyConstruct", 0, 0)
    /\ ret' = NoValue
    /\ UNCHANGED <<root, dataByMonth, result, inserted>>
    /\ UNCHANGED <<app, otherCollection>>

\* Bst<T>::operator=: other = this, this = this, other = other
Assign(dst, src) ==
    /\ otherBst.live
    /\ dst = "this" => src = "this"
    /\ IF dst # src
       THEN LET h1 == deleteTreeRec(heap, RootOf(dst))
                c  == copyTreeRec(h1, RootOf(src))
            IN  /\ heap' = c.heap
                /\ otherBst' = [otherBst EXCEPT !.root = c.ret]
       ELSE UNCHANGED <<heap, otherBst>>
    /\ input' = [kind |-> "copy", dst |-> dst, src |-> src]
    /\ lastOp' = Op("assign", 0, 0)
    /\ ret' = NoValue
    /\ UNCHANGED <<root, dataByMonth, result, inserted>>
    /\ UNCHANGED <<app, otherCollection>>

NextBst ==
    \/ \E d \in BstDates : BstInsert("this", d, <<1, 2, 3>>)
    \/ \E d \in BstDates : BstInsert("other", d, <<4, 5, 6>>)
    \/ \E d \in SearchKeys : Search(d)
    \/ \E order \in Orders : Traverse(order)
    \/ CopyConstruct
    \/ \E dst, src \in BstNames : Assign(dst, src)

SpecBst == InitBst /\ [][NextBst]_vars

\* a tree by value: its shape and the contents of the record of each node
RECURSIVE TreeValue(_, _)
TreeValue(h, node) ==
    IF node = NULL THEN << >>
    ELSE IF node \notin DOMAIN h THEN << "deleted" >>
    ELSE << Content(h, h[node].data),
            TreeValue(h, h[node].left), TreeValue(h, h[node].right) >>

\* the nodes, records and dates reachable from a root
TreeAddrs(h, rt) ==
    LET ns == NodesOf(h, rt)
        rs == {h[n].data : n \in ns}
    IN  ns \cup rs \cup {Deref(h, r).date : r \in rs}

\* the contents of the records of a tree in in-order sequence
InOrderContents(h, rt) ==
    LET seq == inOrderRec(h, rt)
    IN  [i \in 1..Len(seq) |-> Content(h, seq[i])]

\* C12: each of the four traversals hands every stored node's record to the
\* visitor exactly once (as many visits as nodes, and every record among
\* them); the two in-order traversals visit in strictly ascending timestamp
\* order; on the empty store the visitor is never invoked.
C12_TraversalsVisitEachNodeOnce ==
    lastOp.op = "traverse" =>
        LET seq == ret.seq
        IN  /\ Len(seq) = Cardinality(StoreNodes)
            /\ {seq[i] : i \in 1..Len(seq)} = StoreRecords
            /\ \A i, j \in 1..Len(seq) : seq[i] = seq[j] => i = j
            /\ input.order \in {"inOrder", "inOrderCtx"} =>
                   \A i \in 1..(Len(seq) - 1) :
                       Precedes(Stamp(Content(heap, seq[i]).date),
                                Stamp(Content(heap, seq[i + 1]).date))
            /\ root = NULL => seq = << >>

C12_Witness ==
    /\ lastOp.op = "traverse"
    /\ input.order = "inOrderCtx"
    /\ Len(ret.seq) = 3
    /\ root # NULL
    /\ heap[root].left # NULL
    /\ heap[root].right # NULL

\* C13: search(key) returns a node of the store whose record carries the
\* key's timestamp when a record with that timestamp was inserted, and the
\* null pointer when none was, the empty store included.
C13_SearchFindsExactlyInserted ==
    lastOp.op = "search" =>
        IF \E i \in 1..Len(inserted) : inserted[i].date = input.date
        THEN /\ ret.node \in StoreNodes
             /\ KeyOf(ret.node) = Stamp(input.date)
        ELSE ret.node = NULL

C13_Witness ==
    /\ lastOp.op = "search"
    /\ root # NULL
    /\ ret.node # NULL
    /\ ret.node \in NodesOf(heap, heap[root].right)

\* C14: a copy (copy construction, or assignment from another tree) has the
\* shape and record contents of the source, leaves the source as it was and
\* shares no node, record or date with it; an insert into one of the two
\* trees leaves the size and the in-order sequence of the other unchanged;
\* self-assignment changes nothing.
C14_Step ==
    LET isCopy == \/ lastOp'.op = "copyConstruct"
                  \/ lastOp'.op = "assign" /\ input'.dst # input'.src
        isSelf == lastOp'.op = "assign" /\ input'.dst = input'.src
        isIns  == lastOp'.op = "insert"
    IN  /\ isCopy =>
              /\ TreeValue(heap', otherBst'.root) = TreeValue(heap, root)
              /\ TreeValue(heap', root') = TreeValue(heap, root)
              /\ TreeAddrs(heap', otherBst'.root) \cap TreeAddrs(heap', root') = {}
              /\ TreeAddrs(heap', otherBst'.root) \subseteq DOMAIN heap'
              /\ TreeAddrs(heap', root') \subseteq DOMAIN heap'
        /\ (isIns /\ input'.into = "this" /\ otherBst.live) =>
              /\ sizeRec(heap', otherBst'.root) = sizeRec(heap, otherBst.root)
              /\ InOrderContents(heap', otherBst'.root)
                     = InOrderContents(heap, otherBst.root)
              /\ TreeValue(heap', otherBst'.root) = TreeValue(heap, otherBst.root)
        /\ (isIns /\ input'.into = "other") =>
              /\ sizeRec(heap', root') = sizeRec(heap, root)
              /\ InOrderContents(heap', root') = InOrderContents(heap, root)
              /\ TreeValue(heap', root') = TreeValue(heap, root)
        /\ isSelf =>
              /\ heap' = heap
              /\ root' = root
              /\ otherBst' = otherBst

C14_CopyIsDeep == [][C14_Step]_vars

C14_Witness ==
    /\ lastOp.op = "insert"
    /\ otherBst.live
    /\ sizeRec(heap, otherBst.root) = 2
    /\ sizeRec(heap, root) = 3

\* ========================================================================
\* WeatherDataCollection::parseDate (WeatherDataCollection.cpp)
\* ========================================================================

\* A std::string is the sequence of its characters.

\* std::isspace for the characters of the inputs
IsSpace(c) == c = " "

DigitChars == <<"0", "1", "2", "3", "4", "5", "6", "7", "8", "9">>

IsDigit(c) == \E i \in 1..Len(DigitChars) : DigitChars[i] = c

DigitVal(c) == (CHOOSE i \in 1..Len(DigitChars) : DigitChars[i] = c) - 1

\* a std::stringstream over s: the text, the get position, the fail bit
Stream(s) == [s |-> s, pos |-> 1, fail |-> FALSE]

\* the whitespace a formatted extraction skips first
RECURSIVE SkipWs(_, _)
SkipWs(s, pos) ==
    IF pos <= Len(s) /\ IsSpace(s[pos]) THEN SkipWs(s, pos + 1) ELSE pos

RECURSIVE ReadDigits(_, _, _)
ReadDigits(s, pos, acc) ==
    IF pos <= Len(s) /\ IsDigit(s[pos])
    THEN ReadDigits(s, pos + 1, acc * 10 + DigitVal(s[pos]))
    ELSE [val |-> acc, pos |-> pos]

\* stream >> int: optional sign, then at least one digit; no digit sets the
\* fail bit; a failed stream extracts nothing
ExtractInt(st) ==
    IF st.fail THEN [stream |-> st, val |-> 0]
    ELSE LET p0     == SkipWs(st.s, st.pos)
             signed == p0 <= Len(st.s) /\ st.s[p0] \in {"-", "+"}
             neg    == p0 <= Len(st.s) /\ st.s[p0] = "-"
             p1     == IF signed THEN p0 + 1 ELSE p0
             d      == ReadDigits(st.s, p1, 0)
         IN  IF d.pos = p1
             THEN [stream |-> [st EXCEPT !.fail = TRUE], val |-> 0]
             ELSE [stream |-> [st EXCEPT !.pos = d.pos],
                   val |-> IF neg THEN 0 - d.val ELSE d.val]

\* stream >> char: the next non-space character; end of text sets the fail bit
ExtractChar(st) ==
    IF st.fail THEN [stream |-> st, val |-> ""]
    ELSE LET p0 == SkipWs(st.s, st.pos)
         IN  IF p0 > Len(st.s)
             THEN [stream |-> [st EXCEPT !.fail = TRUE], val |-> ""]
             ELSE [stream |-> [st EXCEPT !.pos = p0 + 1], val |-> st.s[p0]]

\* std::string::find(c): the first position of c, 0 for npos
Find(s, c) ==
    IF \E i \in 1..Len(s) : s[i] = c
    THEN CHOOSE i \in 1..Len(s) : s[i] = c /\ \A j \in 1..(i - 1) : s[j] # c
    ELSE 0

\* parseDate that gives up the date as well when the time does not parse
parseDate_TimeFailSentinel(s) ==
    LET space_pos == Find(s, " ")
    IN  IF space_pos = 0 THEN Date(1, 1, 1900, 0, 0)
        ELSE LET date_ss == Stream(SubSeq(s, 1, space_pos - 1))
                 time_ss == Stream(SubSeq(s, space_pos + 1, Len(s)))
                 day     == ExtractInt(date_ss)
                 sep1    == ExtractChar(day.stream)
                 month   == ExtractInt(sep1.stream)
                 sep2    == ExtractChar(month.stream)
                 year    == ExtractInt(sep2.stream)
                 hour    == ExtractInt(time_ss)
                 sep3    == ExtractChar(hour.stream)
                 minute  == ExtractInt(sep3.stream)
             IN  IF year.stream.fail \/ sep1.val # "/" \/ sep2.val # "/"
                    \/ minute.stream.fail \/ sep3.val # ":"
                 THEN Date(1, 1, 1900, 0, 0)
                 ELSE Date(day.val, month.val, year.val, hour.val, minute.val)

\* WeatherDataCollection::parseDate: the Date it allocates
parseDate(s) ==
    LET space_pos == Find(s, " ")
    IN  IF space_pos = 0 THEN Date(1, 1, 1900, 0, 0)
        ELSE LET date_ss == Stream(SubSeq(s, 1, space_pos - 1))
                 time_ss == Stream(SubSeq(s, space_pos + 1, Len(s)))
                 day     == ExtractInt(date_ss)
                 sep1    == ExtractChar(day.stream)
                 month   == ExtractInt(sep1.stream)
                 sep2    == ExtractChar(month.stream)
                 year    == ExtractInt(sep2.stream)
                 hour    == ExtractInt(time_ss)
                 sep3    == ExtractChar(hour.stream)
                 minute  == ExtractInt(sep3.stream)
             IN  IF year.stream.fail \/ sep1.val # "/" \/ sep2.val # "/"
                 THEN Date(1, 1, 1900, 0, 0)
                 ELSE IF minute.stream.fail \/ sep3.val # ":"
                 THEN Date(day.val, month.val, year.val, 0, 0)
                 ELSE Date(day.val, month.val, year.val, hour.val, minute.val)

\* Date portions of a timestamp field: the text, whether it is a date
\* "D/M/Y", and the numbers it spells
DateParts ==
    {
      [text |-> <<"1", "/", "6", "/", "2", "0", "2", "0">>, ok |-> TRUE, day |-> 1, month |-> 6, year |-> 2020],
      [text |-> <<"1", "5", "/", "1", "2", "/", "2", "0", "1", "9">>, ok |-> TRUE, day |-> 15, month |-> 12, year |-> 2019],
      [text |-> <<"0", "1", "/", "0", "6", "/", "2", "0", "2", "0">>, ok |-> TRUE, day |-> 1, month |-> 6, year |-> 2020],
      [text |-> <<"1", "/", "1", "3", "/", "2", "0", "2", "0">>, ok |-> TRUE, day |-> 1, month |-> 13, year |-> 2020],
      [text |-> <<"n", "o", "t", "-", "a", "-", "d", "a", "t", "e">>, ok |-> FALSE, day |-> 0, month |-> 0, year |-> 0],
      [text |-> <<>>, ok |-> FALSE, day |-> 0, month |-> 0, year |-> 0],
      [text |-> <<"1", "-", "6", "-", "2", "0", "2", "0">>, ok |-> FALSE, day |-> 0, month |-> 0, year |-> 0],
      [text |-> <<"1", "/", "6">>, ok |-> FALSE, day |-> 0, month |-> 0, year |-> 0],
      [text |-> <<"/", "6", "/", "2", "0", "2", "0">>, ok |-> FALSE, day |-> 0, month |-> 0, year |-> 0],
      [text |-> <<"1", "/", "6", "/", "x">>, ok |-> FALSE, day |-> 0, month |-> 0, year |-> 0] }

\* Time portions: the text, whether it is a time "H:MM", and its numbers
TimeParts ==
    {
      [text |-> <<"9", ":", "0", "0">>, ok |-> TRUE, hour |-> 9, minute |-> 0],
      [text |-> <<"0", "9", ":", "3", "0">>, ok |-> TRUE, hour |-> 9, minute |-> 30],
      [text |-> <<"2", "5", ":", "9", "9">>, ok |-> TRUE, hour |-> 25, minute |-> 99],
      [text |-> <<" ", "9", ":", "0", "5">>, ok |-> TRUE, hour |-> 9, minute |-> 5],
      [text |-> <<>>, ok |-> FALSE, hour |-> 0, minute |-> 0],
      [text |-> <<"9">>, ok |-> FALSE, hour |-> 0, minute |-> 0],
      [text |-> <<"9", "-", "0", "0">>, ok |-> FALSE, hour |-> 0, minute |-> 0],
      [text |-> <<"a", "b", "c">>, ok |-> FALSE, hour |-> 0, minute |-> 0],
      [text |-> <<"9", ":">>, ok |-> FALSE, hour |-> 0, minute |-> 0] }

\* A timestamp field is a date portion alone, or a date portion, one space
\* and a time portion.
InitParse ==
    /\ \E dp \in DateParts :
           \/ input = [kind |-> "timestamp", text |-> dp.text, date |-> dp,
                       hasTime |-> FALSE, time |-> CHOOSE tp \in TimeParts : tp.text = << >>]
           \/ \E tp \in TimeParts :
                  input = [kind |-> "timestamp",
                           text |-> dp.text \o << " " >> \o tp.text,
                           date |-> dp, hasTime |-> TRUE, time |-> tp]
    /\ heap = << >>
    /\ root = NULL
    /\ dataByMonth = << >>
    /\ result = NoResult
    /\ lastOp = Op("init", 0, 0)
    /\ inserted = << >>
    /\ otherBst = NoOther
    /\ app = NoApp
    /\ otherCollection = NoCollection
    /\ ret = NoValue

\* one call of parseDate(&text)
ParseDate ==
    /\ lastOp.op = "init"
    /\ heap' = New(heap, parseDate(input.text))
    /\ ret' = [kind |-> "date", ptr |-> Alloc(heap)]
    /\ lastOp' = Op("parseDate", 0, 0)
    /\ UNCHANGED <<root, dataByMonth, result, inserted, otherBst, input>>
    /\ UNCHANGED <<app, otherCollection>>

NextParse == ParseDate

SpecParse == InitParse /\ [][NextParse]_vars

Sentinel == Date(1, 1, 1900, 0, 0)

\* C15 as stated: a date portion that does not parse gives the sentinel
\* 1/1/1900 00:00; a date portion that parses with a time portion that does
\* not parse, or with no time portion at all, gives the parsed day, month
\* and year at 00:00.
C15_MissingTimeKeepsDate ==
    lastOp.op = "parseDate" =>
        LET r == heap[ret.ptr]
            dp == input.date
        IN  /\ ~ dp.ok => r = Sentinel
            /\ (dp.ok /\ (~ input.hasTime \/ ~ input.time.ok)) =>
                   r = Date(dp.day, dp.month, dp.year, 0, 0)

\* C15 (amended): parseDate always returns a Date; a date portion that does
\* not parse gives the sentinel; a field without any space gives the
\* sentinel as well, whatever it spells; a date portion that parses,
\* followed by a space and a time portion that does not parse (the empty
\* one included), gives the parsed day, month and year at 00:00.
C15_ParseDateFallbacks ==
    lastOp.op = "parseDate" =>
        LET r == heap[ret.ptr]
            dp == input.date
        IN  /\ r.type = "Date"
            /\ ~ dp.ok => r = Sentinel
            /\ ~ input.hasTime => r = Sentinel
            /\ (dp.ok /\ input.hasTime /\ ~ input.time.ok) =>
                   r = Date(dp.day, dp.month, dp.year, 0, 0)

C15_Witness ==
    /\ lastOp.op = "parseDate"
    /\ input.date.ok
    /\ input.hasTime
    /\ ~ input.time.ok
    /\ input.time.text # << >>
    /\ heap[ret.ptr] = Date(15, 12, 2019, 0, 0)

\* ========================================================================
\* WeatherDataCollection::loadFromFiles (WeatherDataCollection.cpp)
\* ========================================================================

\* tokens.size() < 18
MinTokens == 18

\* the element of a one-element set: Only({ F(v) : v \in {e} }) is F(e) with
\* e computed once, as a local variable of the code is
Only(S) == CHOOSE x \in S : TRUE

\* while (std::getline(ss, token, ',')): the pieces between the commas; no
\* token is produced for what follows the last comma when that is empty
Split(line) ==
    CHOOSE v \in {
        LET commas   == Cardinality({ i \in 1..Len(s) : s[i] = "," })
            comma(k) == IF k = 0 THEN 0
                        ELSE IF k > commas THEN Len(s) + 1
                        ELSE CHOOSE i \in 1..Len(s) :
                                 /\ s[i] = ","
                                 /\ Cardinality({ j \in 1..i : s[j] = "," }) = k
            tokens   == IF s = << >> THEN 0
                        ELSE IF s[Len(s)] = "," THEN commas ELSE commas + 1
        IN  << >> \o [k \in 1..tokens |-> SubSeq(s, comma(k - 1) + 1, comma(k) - 1)]
        : s \in {line} } : TRUE

\* std::stod on texts without fraction or exponent: optional sign and at
\* least one digit, what follows the digits is ignored; ok is FALSE where
\* std::stod throws std::invalid_argument
stod(tok) ==
    LET p0     == SkipWs(tok, 1)
        signed == p0 <= Len(tok) /\ tok[p0] \in {"-", "+"}
        neg    == p0 <= Len(tok) /\ tok[p0] = "-"
        p1     == IF signed THEN p0 + 1 ELSE p0
        d      == ReadDigits(tok, p1, 0)
    IN  IF d.pos = p1 THEN [ok |-> FALSE, val |-> 0]
        ELSE [ok |-> TRUE, val |-> IF neg THEN 0 - d.val ELSE d.val]

\* a measurement field read without the "N/A" test
ReadField_NoNA(tok) == stod(tok)

\* double v = 0.0; if (tok != "N/A") v = std::stod(tok);
ReadField(tok) ==
    IF tok = <<"N", "/", "A">> THEN [ok |-> TRUE, val |-> 0] ELSE stod(tok)

\* the body of the row loop: the heap and the staging vector after one line.
\* An exception leaves the Date made by parseDate allocated.
ParseRow(h, staged, line) ==
    Only({ IF Len(tokens) < MinTokens THEN [heap |-> h, staged |-> staged]
           ELSE LET h1   == New(h, parseDate(tokens[1]))
                    date == Alloc(h)
                    windSpeed      == ReadField(tokens[11])
                    solarRadiation == ReadField(tokens[12])
                    temperature    == ReadField(tokens[18])
                IN  IF ~ (windSpeed.ok /\ solarRadiation.ok /\ temperature.ok)
                    THEN [heap |-> h1, staged |-> staged]
                    ELSE [heap |-> New(h1, [type |-> "WeatherRecord", date |-> date,
                                            windSpeed |-> windSpeed.val,
                                            temperature |-> temperature.val,
                                            solarRadiation |-> solarRadiation.val]),
                          staged |-> Append(staged, Alloc(h1))]
           : tokens \in { Split(line) } })

\* while (std::getline(csvFile, line)) over the lines after the header
RECURSIVE ParseRows(_, _, _)
ParseRows(h, staged, lines) ==
    IF lines = << >> THEN [heap |-> h, staged |-> staged]
    ELSE Only({ ParseRows(r.heap, r.staged, Tail(lines))
                : r \in { ParseRow(h, staged, Head(lines)) } })

\* one opened CSV file: the first line is skipped
ParseFile(h, staged, lines) ==
    IF lines = << >> THEN [heap |-> h, staged |-> staged]
    ELSE ParseRows(h, staged, Tail(lines))

\* csvFileName.erase(std::remove(..., '\r'), ...)
StripCR(s) == SelectSeq(s, LAMBDA c : c # "\r")

\* ---- the input files ----

\* a measurement field: its text, whether it spells a number, "N/A" or
\* neither, and the number it spells
Tok(text, kind, val) == [text |-> text, kind |-> kind, val |-> val]

NA == Tok(<<"N", "/", "A">>, "na", 0)
Five == Tok(<<"5">>, "num", 5)
Seven == Tok(<<"7">>, "num", 7)
Twelve == Tok(<<"1", "2">>, "num", 12)
Junk == Tok(<<"a", "b", "c">>, "bad", 0)

\* a row: its number of fields, the text of the timestamp field with the
\* timestamp it spells, and the three measurement fields
Row(n, text, date, w, s, t) ==
    [n |-> n, text |-> text, date |-> date, w |-> w, s |-> s, t |-> t]

\* the fields of a row: timestamp at index 0, wind speed at 10, solar
\* radiation at 11, temperature at 17 (counted from 0), anything elsewhere
FieldsOf(row) ==
    [i \in 1..row.n |->
        CASE i = 1  -> row.text
          [] i = 11 -> row.w.text
          [] i = 12 -> row.s.text
          [] i = 18 -> row.t.text
          [] OTHER  -> <<"x">>]

\* the line of a CSV file that holds the fields
RECURSIVE Join(_)
Join(fields) ==
    IF fields = << >> THEN << >>
    ELSE IF Len(fields) = 1 THEN fields[1]
    ELSE fields[1] \o <<",">> \o Join(Tail(fields))

\* rows of the CSV files under data/: file a has a short row before a
\* complete one, file b a row with an unreadable number before a row whose
\* timestamp is out of every range, file c a row with the timestamp of the
\* complete row of file a and other measurements, file d three rows whose
\* timestamp fields do not spell a date
CsvRows ==
    ("a" :> << Row(17, <<"1", "/", "6", "/", "2", "0", "2", "0", " ", "9", ":", "0", "0">>,
                   Date(1, 6, 2020, 9, 0), Five, NA, Twelve),
               Row(18, <<"2", "/", "7", "/", "2", "0", "2", "0", " ", "9", ":", "3", "0">>,
                   Date(2, 7, 2020, 9, 30), Five, NA, Twelve) >>)
    @@
    ("b" :> << Row(18, <<"1", "/", "6", "/", "2", "0", "2", "0", " ", "9", ":", "0", "0">>,
                   Date(1, 6, 2020, 9, 0), Junk, Seven, Twelve),
               Row(19, <<"1", "/", "1", "3", "/", "2", "0", "2", "0", " ", "2", "5", ":", "9", "9">>,
                   Date(1, 13, 2020, 25, 99), NA, Seven, NA) >>)
    @@
    ("c" :> << Row(18, <<"2", "/", "7", "/", "2", "0", "2", "0", " ", "9", ":", "3", "0">>,
                   Date(2, 7, 2020, 9, 30), Seven, Five, NA) >>)
    @@
    ("d" :> << Row(18, <<"x">>, Date(1, 1, 1900, 0, 0), Five, Five, Five),
               Row(18, <<"1", "/", "6", " ", "9", ":", "0", "0">>,
                   Date(1, 1, 1900, 0, 0), Seven, Seven, Seven),
               Row(18, <<"1", "-", "6">>, Date(1, 1, 1900, 0, 0), Twelve, Twelve, NA) >>)

\* the files that can be opened, by path: a header line and the rows
FileSystem ==
    [path \in { <<"data/", name>> : name \in DOMAIN CsvRows } |->
        << <<"h", ",", "h">> >> \o
            [i \in 1..Len(CsvRows[path[2]]) |-> Join(FieldsOf(CsvRows[path[2]][i]))]]

\* lines of a list file: the text and the CSV file it names, "none" for a
\* blank line and for a file that does not exist
LineA == [text |-> <<"a">>, file |-> "a"]
LineB == [text |-> <<"b", "\r">>, file |-> "b"]
LineC == [text |-> <<"c">>, file |-> "c"]
LineD == [text |-> <<"d">>, file |-> "d"]
LineMissing == [text |-> <<"m">>, file |-> "none"]
LineBlank == [text |-> <<"\r">>, file |-> "none"]

\* the list files explored, as sequences of lines
ListFiles ==
    { << >>, <<LineA>>, <<LineB>>, <<LineMissing>>, <<LineBlank, LineA>>,
      <<LineMissing, LineA>>, <<LineA, LineB>>, <<LineB, LineMissing, LineA>>,
      <<LineA, LineA>>, <<LineA, LineC>>, <<LineD>> }

\* the loop over the list file that stops at the first CSV it cannot open
RECURSIVE ReadList_StopAtUnopenable(_, _, _)
ReadList_StopAtUnopenable(h, staged, names) ==
    IF names = << >> THEN [heap |-> h, staged |-> staged]
    ELSE LET csvFileName == StripCR(Head(names))
             fullPath    == <<"data/">> \o csvFileName
         IN  IF csvFileName = << >>
             THEN ReadList_StopAtUnopenable(h, staged, Tail(names))
             ELSE IF fullPath \notin DOMAIN FileSystem
             THEN [heap |-> h, staged |-> staged]
             ELSE Only({ ReadList_StopAtUnopenable(r.heap, r.staged, Tail(names))
                         : r \in { ParseFile(h, staged, FileSystem[fullPath]) } })

\* while (std::getline(listFile, csvFileName)): blank names and files that
\* do not open are passed over
RECURSIVE ReadList(_, _, _)
ReadList(h, staged, names) ==
    IF names = << >> THEN [heap |-> h, staged |-> staged]
    ELSE LET csvFileName == StripCR(Head(names))
             fullPath    == <<"data/">> \o csvFileName
         IN  IF csvFileName = << >> \/ fullPath \notin DOMAIN FileSystem
             THEN ReadList(h, staged, Tail(names))
             ELSE Only({ ReadList(r.heap, r.staged, Tail(names))
                         : r \in { ParseFile(h, staged, FileSystem[fullPath]) } })

\* for (WeatherRecord* record : recordsToInsert) addWeatherRecord(record);
RECURSIVE InsertAll(_, _, _, _)
InsertAll(h, rt, idx, records) ==
    IF records = << >> THEN [heap |-> h, root |-> rt, dataByMonth |-> idx]
    ELSE Only({ InsertAll(r.heap, r.root, r.dataByMonth, Tail(records))
                : r \in { addWeatherRecord(h, rt, idx, Head(records)) } })

\* the orders std::shuffle can leave n elements in
Perms(n) == { p \in [1..n -> 1..n] : \A i, j \in 1..n : p[i] = p[j] => i = j }

\* WeatherDataCollection::loadFromFiles: listOpen is listFile.is_open(),
\* names the lines of the list file, perm the outcome of the shuffle
loadFromFiles(h, rt, idx, listOpen, names, perm) ==
    IF ~ listOpen THEN [heap |-> h, root |-> rt, dataByMonth |-> idx]
    ELSE Only({ LET recordsToInsert == parsed.staged
                IN  IF recordsToInsert = << >>
                    THEN [heap |-> parsed.heap, root |-> rt, dataByMonth |-> idx]
                    ELSE InsertAll(parsed.heap, rt, idx,
                                   [i \in 1..Len(recordsToInsert) |->
                                       recordsToInsert[perm[i]]])
                : parsed \in { ReadList(h, << >>, names) } })

\* the records staged by a call, in staging order
Staged(h, listOpen, names) ==
    IF listOpen THEN ReadList(h, << >>, names) ELSE [heap |-> h, staged |-> << >>]

\* number of records already ingested up to which a further load is explored
MaxPrior == 2

\* WeatherDataCollection::WeatherDataCollection()
InitLoad ==
    /\ heap = << >>
    /\ root = NULL
    /\ dataByMonth = << >>
    /\ result = NoResult
    /\ lastOp = Op("init", 0, 0)
    /\ inserted = << >>
    /\ otherBst = NoOther
    /\ app = NoApp
    /\ otherCollection = NoCollection
    /\ input = NoValue
    /\ ret = NoValue

\* one call of loadFromFiles(&filename)
LoadFromFiles(listOpen, list) ==
    /\ Len(inserted) <= MaxPrior
    /\ \E names \in { [i \in 1..Len(list) |-> list[i].text] } :
       \E st \in { Staged(heap, listOpen, names) } :
       \E perm \in Perms(Len(st.staged)) :
       \E r \in { loadFromFiles(heap, root, dataByMonth, listOpen, names, perm) } :
           /\ heap' = r.heap
           /\ root' = r.root
           /\ dataByMonth' = r.dataByMonth
           /\ inserted' = inserted \o
                  [i \in 1..Len(st.staged) |-> Content(st.heap, st.staged[perm[i]])]
           /\ ret' = [kind |-> "load",
                      staged |-> [i \in 1..Len(st.staged) |->
                                     Content(st.heap, st.staged[i])]]
    /\ input' = [kind |-> "list", open |-> listOpen, list |-> list]
    /\ lastOp' = Op("load", 0, 0)
    /\ UNCHANGED <<result, otherBst>>
    /\ UNCHANGED <<app, otherCollection>>

NextLoad ==
    \/ LoadFromFiles(FALSE, << >>)
    \/ \E list \in ListFiles : LoadFromFiles(TRUE, list)

SpecLoad == InitLoad /\ [][NextLoad]_vars

\* what a row is to contribute to the staging vector: nothing when it has
\* fewer than 18 fields or a measurement field that is neither a number nor
\* "N/A"; otherwise one record, "N/A" counting as 0
Reading(tok) == IF tok.kind = "na" THEN 0 ELSE tok.val

ExpectedOfRow(row) ==
    IF row.n >= 18 /\ {row.w.kind, row.s.kind, row.t.kind} \subseteq {"num", "na"}
    THEN << [type |-> "WeatherRecord", date |-> row.date,
             windSpeed |-> Reading(row.w), temperature |-> Reading(row.t),
             solarRadiation |-> Reading(row.s)] >>
    ELSE << >>

RECURSIVE ExpectedOfRows(_)
ExpectedOfRows(rows) ==
    IF rows = << >> THEN << >>
    ELSE ExpectedOfRow(Head(rows)) \o ExpectedOfRows(Tail(rows))

RECURSIVE ExpectedStaged(_)
ExpectedStaged(list) ==
    IF list = << >> THEN << >>
    ELSE (IF Head(list).file = "none" THEN << >>
          ELSE ExpectedOfRows(CsvRows[Head(list).file]))
         \o ExpectedStaged(Tail(list))

\* C16: the records staged by a load are, in row order, one record per row
\* that has at least 18 fields and whose fields 10, 11 and 17 are numbers
\* or "N/A" (read as 0), and none for a row with fewer than 18 fields; the
\* rows after a skipped row are still staged.
C16_RowsStaged ==
    (lastOp.op = "load" /\ input.open) => ret.staged = ExpectedStaged(input.list)

C16_Witness ==
    /\ lastOp.op = "load"
    /\ input.open
    /\ input.list = <<LineA, LineB>>
    /\ Len(ret.staged) = 2
    /\ ret.staged[1].solarRadiation = 0
    /\ ret.staged[2].windSpeed = 0

\* C17: a load whose list file does not open changes neither the heap, nor
\* the tree, nor the month index; no load changes a record the store
\* already holds; a load whose list names a file that does not open still
\* brings the timestamps of the rows of the files that do open into the
\* store.
C17_Step ==
    lastOp'.op = "load" =>
        /\ ~ input'.open =>
               /\ heap' = heap
               /\ root' = root
               /\ dataByMonth' = dataByMonth
        /\ \A r \in StoreRecords :
               /\ r \in StoreRecords'
               /\ Content(heap', r) = Content(heap, r)
        /\ input'.open =>
               \A i \in 1..Len(input'.list) :
                   input'.list[i].file # "none" =>
                       LET exp == ExpectedOfRows(CsvRows[input'.list[i].file])
                       IN  \A k \in 1..Len(exp) :
                               \E r \in StoreRecords' :
                                   Content(heap', r).date = exp[k].date

C17_UnreadableSourceSkipped == [][C17_Step]_vars

C17_Witness ==
    /\ lastOp.op = "load"
    /\ input.open
    /\ input.list = <<LineB, LineMissing, LineA>>
    /\ Len(ret.staged) = 2
    /\ Len(inserted) > Len(ret.staged)

\* C18: after a load every timestamp in the store has its month in 1..12,
\* its day in 1..31, its hour in 0..23 and its minute in 0..59.
C18_TimestampsInRange ==
    lastOp.op = "load" =>
        \A r \in StoreRecords :
            LET d == Content(heap, r).date
            IN  /\ d.month \in 1..12
                /\ d.day \in 1..31
                /\ d.hour \in 0..23
                /\ d.minute \in 0..59

\* ========================================================================
\* double arithmetic (IEEE 754 binary64, round to nearest even) for
\* Statistics.cpp
\* ========================================================================

\* Natural numbers of any size: the sequence of their digits in base 2^15,
\* least significant first, without leading zeros; << >> is zero.
Base == 2^15

\* Below, CHOOSE v \in { F(a) : a \in {x} } : TRUE is F(x) with x worked
\* out once, before F starts.

\* x without its leading zeros
Trim(x) ==
    CHOOSE v \in {
        LET used == { i \in 1..Len(a) : a[i] # 0 }
        IN  IF used = {} THEN << >>
            ELSE SubSeq(a, 1, CHOOSE i \in used : \A j \in used : j <= i)
        : a \in {x} } : TRUE

Limb(a, i) == IF i <= Len(a) THEN a[i] ELSE 0

RECURSIVE FromInt(_)
FromInt(k) == IF k = 0 THEN << >> ELSE << k % Base >> \o FromInt(k \div Base)

\* x + y: digit i receives a carry when a lower digit overflows and every
\* digit in between is full
BigAdd(x, y) ==
    CHOOSE v \in {
        LET n        == IF Len(a) > Len(b) THEN Len(a) ELSE Len(b)
            sum(i)   == Limb(a, i) + Limb(b, i)
            carry(i) == \E j \in 1..(i - 1) :
                            /\ sum(j) >= Base
                            /\ \A k \in (j + 1)..(i - 1) : sum(k) = Base - 1
        IN  [i \in 1..n |-> (sum(i) + (IF carry(i) THEN 1 ELSE 0)) % Base]
            \o (IF carry(n + 1) THEN << 1 >> ELSE << >>)
        : a \in {x}, b \in {y} } : TRUE

\* x - y for x >= y: digit i lends when a lower digit falls short and
\* every digit in between is level
BigSub(x, y) ==
    CHOOSE v \in {
        LET borrow(i) == \E j \in 1..(i - 1) :
                             /\ a[j] < Limb(b, j)
                             /\ \A k \in (j + 1)..(i - 1) : a[k] = Limb(b, k)
        IN  Trim([i \in 1..Len(a) |->
                     (a[i] - Limb(b, i) - (IF borrow(i) THEN 1 ELSE 0) + Base) % Base])
        : a \in {x}, b \in {y} } : TRUE

\* -1, 0 or 1 as x is below, equal to or above y
BigCmp(x, y) ==
    CHOOSE v \in {
        IF Len(a) < Len(b) THEN -1
        ELSE IF Len(a) > Len(b) THEN 1
        ELSE LET differ == { i \in 1..Len(a) : a[i] # b[i] }
                 top    == CHOOSE i \in differ : \A j \in differ : j <= i
             IN  IF differ = {} THEN 0
                 ELSE IF a[top] < b[top] THEN -1 ELSE 1
        : a \in {x}, b \in {y} } : TRUE

\* x * k for 0 <= k < Base: the low halves of the digit products plus
\* their high halves one digit up
MulSmall(x, k) ==
    IF k = 0 THEN << >>
    ELSE CHOOSE v \in {
             Trim(BigAdd([i \in 1..Len(a) |-> (a[i] * k) % Base],
                         << 0 >> \o [i \in 1..Len(a) |-> (a[i] * k) \div Base]))
             : a \in {x} } : TRUE

\* a times the digits of b above digit j is acc; the digits from j down
\* are still to be multiplied in
RECURSIVE MulFrom(_, _, _, _)
MulFrom(a, b, j, acc) ==
    IF j = 0 THEN acc
    ELSE CHOOSE v \in {
             MulFrom(a, b, j - 1, BigAdd(high, low))
             : high \in { IF acc = << >> THEN << >> ELSE << 0 >> \o acc },
               low  \in { MulSmall(a, b[j]) } } : TRUE

BigMul(x, y) ==
    CHOOSE v \in { IF a = << >> THEN << >> ELSE MulFrom(a, b, Len(b), << >>)
                   : a \in {x}, b \in {y} } : TRUE

\* x * 2^k: whole digits of zeros below, and each digit split over two
\* neighbouring digits
ShiftLeft(x, k) ==
    CHOOSE v \in {
        IF a = << >> THEN << >>
        ELSE [i \in 1..(k \div 15) |-> 0]
             \o [i \in 1..Len(a) |->
                    ((a[i] * 2^(k % 15)) % Base)
                    + (IF i = 1 THEN 0 ELSE (a[i - 1] * 2^(k % 15)) \div Base)]
             \o (IF (a[Len(a)] * 2^(k % 15)) \div Base = 0 THEN << >>
                 ELSE << (a[Len(a)] * 2^(k % 15)) \div Base >>)
        : a \in {x} } : TRUE

\* floor(x / 2^k)
ShiftRight(x, k) ==
    CHOOSE v \in {
        Trim([i \in 1..Len(b) |->
                 (b[i] \div 2^(k % 15))
                 + (Limb(b, i + 1) % 2^(k % 15)) * (Base \div 2^(k % 15))])
        : b \in { IF k \div 15 >= Len(x) THEN << >>
                  ELSE SubSeq(x, k \div 15 + 1, Len(x)) } } : TRUE

\* number of binary digits of a digit k
SmallBits(k) == CHOOSE n \in 0..15 : k < 2^n /\ (n = 0 \/ 2^(n - 1) <= k)

\* number of binary digits of a
BitLen(a) ==
    IF a = << >> THEN 0 ELSE 15 * (Len(a) - 1) + SmallBits(a[Len(a)])

IsOdd(a) == a # << >> /\ a[1] % 2 = 1

\* one more binary digit of floor(sqrt(n)), where s.r holds the digits
\* above bit `bit` (counted from 1) and s.rem = n - s.r^2: the bit is set
\* when the square stays within n
SqrtStep(s, bit) ==
    CHOOSE v \in {
        IF BigCmp(grow, s.rem) <= 0
        THEN [r   |-> BigAdd(s.r, ShiftLeft(<< 1 >>, bit - 1)),
              rem |-> BigSub(s.rem, grow)]
        ELSE s
        : grow \in { BigAdd(ShiftLeft(s.r, bit),
                            ShiftLeft(<< 1 >>, 2 * (bit - 1))) } } : TRUE

\* the digits from bit hi down to bit lo + 1 (hi > lo), the upper half
\* before the lower half
RECURSIVE SqrtBits(_, _, _)
SqrtBits(s, hi, lo) ==
    IF hi = lo + 1 THEN SqrtStep(s, hi)
    ELSE CHOOSE v \in { SqrtBits(upper, lo + (hi - lo) \div 2, lo)
                        : upper \in { SqrtBits(s, hi, lo + (hi - lo) \div 2) } }
                : TRUE

\* floor(sqrt(n)) for n below 4^bits and what n exceeds its square by,
\* digit by digit from bit `bits` down
SqrtFrom(n, bits) == SqrtBits([r |-> << >>, rem |-> n], bits, 0)

\* one further binary digit of the quotient after q, with remainder r < d
DivStep(q, r, d) ==
    CHOOSE v \in { IF BigCmp(r2, d) >= 0
                   THEN [q |-> BigAdd(q2, << 1 >>), r |-> BigSub(r2, d)]
                   ELSE [q |-> q2, r |-> r2]
                   : r2 \in { ShiftLeft(r, 1) }, q2 \in { ShiftLeft(q, 1) } } : TRUE

\* k >= 1 further binary digits of the quotient after q, with remainder
\* r < d: the first k \div 2 digits, then the others
RECURSIVE DivFrom(_, _, _, _)
DivFrom(q, r, d, k) ==
    IF k = 1 THEN DivStep(q, r, d)
    ELSE CHOOSE v \in { DivFrom(first.q, first.r, d, k - k \div 2)
                        : first \in { DivFrom(q, r, d, k \div 2) } } : TRUE

\* A double is NaN or a number (-1)^neg * m * 2^e whose significand m has
\* exactly MantissaBits binary digits (zero: m = << >>, e = 0).  The
\* exponent range is not modelled: no computation below overflows or
\* underflows.  Each operation is rounded on its own (no fused multiply-add).
MantissaBits == 53

NaN == [kind |-> "nan"]

Num(neg, m, e) == [kind |-> "num", neg |-> neg, m |-> m, e |-> e]

Zero == Num(FALSE, << >>, 0)

IsNaN(a) == a.kind = "nan"

\* the double nearest to (-1)^neg * m * 2^e, ties to the even significand
RoundD(neg, x, e) ==
    CHOOSE v \in {
        IF m = << >> THEN Zero
        ELSE IF BitLen(m) <= MantissaBits
        THEN Num(neg, ShiftLeft(m, MantissaBits - BitLen(m)),
                 e - (MantissaBits - BitLen(m)))
        ELSE LET k == BitLen(m) - MantissaBits
             IN  CHOOSE w \in {
                     CHOOSE u \in {
                         CHOOSE t \in {
                             IF BitLen(q1) > MantissaBits
                             THEN Num(neg, ShiftRight(q1, 1), e + k + 1)
                             ELSE Num(neg, q1, e + k)
                             : q1 \in { IF c > 0 \/ (c = 0 /\ IsOdd(q))
                                        THEN BigAdd(q, << 1 >>) ELSE q } } : TRUE
                         : c \in { BigCmp(BigSub(m, ShiftLeft(q, k)),
                                          ShiftLeft(<< 1 >>, k - 1)) } } : TRUE
                     : q \in { ShiftRight(m, k) } } : TRUE
        : m \in {x} } : TRUE

\* exact sum and product of two numbers, as neg, m, e without rounding
ExactAdd(a, b) ==
    IF a.m = << >> THEN [neg |-> b.neg, m |-> b.m, e |-> b.e]
    ELSE IF b.m = << >> THEN [neg |-> a.neg, m |-> a.m, e |-> a.e]
    ELSE LET e == IF a.e < b.e THEN a.e ELSE b.e
         IN  CHOOSE v \in {
                 IF a.neg = b.neg THEN [neg |-> a.neg, m |-> BigAdd(ma, mb), e |-> e]
                 ELSE IF BigCmp(ma, mb) >= 0
                 THEN [neg |-> a.neg, m |-> BigSub(ma, mb), e |-> e]
                 ELSE [neg |-> b.neg, m |-> BigSub(mb, ma), e |-> e]
                 : ma \in { ShiftLeft(a.m, a.e - e) },
                   mb \in { ShiftLeft(b.m, b.e - e) } } : TRUE

ExactMul(a, b) ==
    [neg |-> a.neg # b.neg, m |-> BigMul(a.m, b.m), e |-> a.e + b.e]

Negate(a) == IF IsNaN(a) \/ a.m = << >> THEN a ELSE [a EXCEPT !.neg = ~ a.neg]

\* a + b, a - b, a * b on doubles; the operands are values by the time
\* the operation starts
fadd(x, y) ==
    CHOOSE v \in { IF IsNaN(a) \/ IsNaN(b) THEN NaN
                   ELSE CHOOSE w \in { RoundD(s.neg, s.m, s.e)
                                       : s \in { ExactAdd(a, b) } } : TRUE
                   : a \in {x}, b \in {y} } : TRUE

fsub(a, b) == fadd(a, Negate(b))

fmul(x, y) ==
    CHOOSE v \in { IF IsNaN(a) \/ IsNaN(b) THEN NaN
                   ELSE CHOOSE w \in { RoundD(p.neg, p.m, p.e)
                                       : p \in { ExactMul(a, b) } } : TRUE
                   : a \in {x}, b \in {y} } : TRUE

\* a / b on doubles; the divisors of Statistics.cpp are never zero
fdiv(x, y) ==
    CHOOSE v \in {
        IF IsNaN(a) \/ IsNaN(b) \/ b.m = << >> THEN NaN
        ELSE IF a.m = << >> THEN Zero
        ELSE CHOOSE w \in {
                 RoundD(a.neg # b.neg,
                        BigAdd(ShiftLeft(d.q, 1),
                               IF d.r = << >> THEN << >> ELSE << 1 >>),
                        a.e - b.e - 57)
                 : d \in { IF BigCmp(a.m, b.m) >= 0
                           THEN DivFrom(<< 1 >>, BigSub(a.m, b.m), b.m, 56)
                           ELSE DivFrom(<< >>, a.m, b.m, 56) } } : TRUE
        : a \in {x}, b \in {y} } : TRUE

\* std::sqrt: NaN for a negative argument
fsqrt(x) ==
    CHOOSE v \in {
        IF IsNaN(a) THEN NaN
        ELSE IF a.m = << >> THEN Zero
        ELSE IF a.neg THEN NaN
        ELSE LET s == IF a.e % 2 = 0 THEN 58 ELSE 59
             IN  CHOOSE w \in {
                     RoundD(FALSE,
                            BigAdd(ShiftLeft(sq.r, 1),
                                   IF sq.rem = << >> THEN << >> ELSE << 1 >>),
                            ((a.e - s) \div 2) - 1)
                     : sq \in { SqrtFrom(ShiftLeft(a.m, s), 56) } } : TRUE
        : a \in {x} } : TRUE

\* std::abs
fabs(a) == IF IsNaN(a) \/ a.m = << >> THEN a ELSE [a EXCEPT !.neg = FALSE]

\* a < b on doubles: false when either is NaN
flt(a, b) ==
    IF IsNaN(a) \/ IsNaN(b) THEN FALSE
    ELSE LET x == ExactAdd(a, Negate(b)) IN x.m # << >> /\ x.neg

\* conversion of an int to double
IntToD(k) == RoundD(k < 0, FromInt(IF k < 0 THEN 0 - k ELSE k), 0)

\* ========================================================================
\* Statistics (Statistics.cpp); a std::vector<double> is a sequence
\* ========================================================================

\* for (double val : *values) sum += val;
RECURSIVE SumLoop(_, _, _)
SumLoop(values, i, sum) ==
    IF i > Len(values) THEN sum
    ELSE CHOOSE v \in { SumLoop(values, i + 1, next)
                        : next \in { fadd(sum, values[i]) } } : TRUE

\* Statistics::calculateMean
calculateMean(values) ==
    IF values = << >> THEN Zero
    ELSE fdiv(SumLoop(values, 1, Zero), IntToD(Len(values)))

\* sumSq += (val - mean) * (val - mean);
RECURSIVE SumSqLoop(_, _, _, _)
SumSqLoop(values, i, mean, sumSq) ==
    IF i > Len(values) THEN sumSq
    ELSE CHOOSE v \in { SumSqLoop(values, i + 1, mean, next)
                        : next \in { fadd(sumSq, fmul(fsub(values[i], mean),
                                                      fsub(values[i], mean))) } }
                : TRUE

\* calculateStdDev dividing by the number of values
calculateStdDev_Population(values) ==
    IF Len(values) < 2 THEN Zero
    ELSE CHOOSE v \in {
             CHOOSE w \in { fsqrt(fdiv(sumSq, IntToD(Len(values))))
                            : sumSq \in { SumSqLoop(values, 1, mean, Zero) } } : TRUE
             : mean \in { calculateMean(values) } } : TRUE

\* Statistics::calculateStdDev
calculateStdDev(values) ==
    IF Len(values) < 2 THEN Zero
    ELSE CHOOSE v \in {
             CHOOSE w \in { fsqrt(fdiv(sumSq, IntToD(Len(values) - 1)))
                            : sumSq \in { SumSqLoop(values, 1, mean, Zero) } } : TRUE
             : mean \in { calculateMean(values) } } : TRUE

\* sumAbs += std::abs(val - mean);
RECURSIVE SumAbsLoop(_, _, _, _)
SumAbsLoop(values, i, mean, sumAbs) ==
    IF i > Len(values) THEN sumAbs
    ELSE CHOOSE v \in { SumAbsLoop(values, i + 1, mean, next)
                        : next \in { fadd(sumAbs, fabs(fsub(values[i], mean))) } }
                : TRUE

\* Statistics::calculateMAD
calculateMAD(values) ==
    IF values = << >> THEN Zero
    ELSE CHOOSE v \in {
             CHOOSE w \in { fdiv(sumAbs, IntToD(Len(values)))
                            : sumAbs \in { SumAbsLoop(values, 1, mean, Zero) } } : TRUE
             : mean \in { calculateMean(values) } } : TRUE

\* the five sums of calculateSPCC after the elements i..n
RECURSIVE SpccLoop(_, _, _, _)
SpccLoop(x, y, i, s) ==
    IF i > Len(x) THEN s
    ELSE CHOOSE v \in {
             SpccLoop(x, y, i + 1, next)
             : next \in { [sum_x  |-> fadd(s.sum_x, x[i]),
                           sum_y  |-> fadd(s.sum_y, y[i]),
                           sum_xy |-> fadd(s.sum_xy, fmul(x[i], y[i])),
                           sum_x2 |-> fadd(s.sum_x2, fmul(x[i], x[i])),
                           sum_y2 |-> fadd(s.sum_y2, fmul(y[i], y[i]))] } } : TRUE

\* the literal 1e-10: the double nearest to 1 / 10^10
Epsilon == fdiv(IntToD(1), fmul(IntToD(100000), IntToD(100000)))

\* Statistics::calculateSPCC
calculateSPCC(x, y) ==
    IF Len(x) # Len(y) \/ Len(x) < 2 THEN Zero
    ELSE CHOOSE v \in {
             CHOOSE w \in {
                 IF flt(fabs(denominator), Epsilon) THEN Zero
                 ELSE fdiv(numerator, denominator)
                 : numerator \in
                       { fsub(fmul(n, s.sum_xy), fmul(s.sum_x, s.sum_y)) },
                   denominator \in
                       { fsqrt(fmul(fsub(fmul(n, s.sum_x2), fmul(s.sum_x, s.sum_x)),
                                    fsub(fmul(n, s.sum_y2), fmul(s.sum_y, s.sum_y)))) } }
                 : TRUE
             : n \in { IntToD(Len(x)) },
               s \in { SpccLoop(x, y, 1, [sum_x |-> Zero, sum_y |-> Zero,
                                          sum_xy |-> Zero, sum_x2 |-> Zero,
                                          sum_y2 |-> Zero]) } } : TRUE

\* the double a decimal text with one decimal digit denotes, from its
\* number of tenths
Tenths(k) == fdiv(IntToD(k), IntToD(10))

\* the vectors handed to the functions, in tenths: empty, a single value,
\* the literal cases, constant series, whole and fractional values
SeriesInTenths ==
    { << >>, <<70>>, <<50, 100, 150>>, <<10, 20, 30>>, <<20, 40, 60>>,
      <<30, 20, 10>>, <<0, 1>>, <<20, 10>>, <<3, 3, 3>>,
      <<10000, 20000, 30000>>, <<253, 389>>, <<7, 7>> }

Series == { [i \in 1..Len(t) |-> Tenths(t[i])] : t \in SeriesInTenths }

InitStats ==
    /\ \E x, y \in Series : input = [kind |-> "series", x |-> x, y |-> y]
    /\ heap = << >>
    /\ root = NULL
    /\ dataByMonth = << >>
    /\ result = NoResult
    /\ lastOp = Op("init", 0, 0)
    /\ inserted = << >>
    /\ otherBst = NoOther
    /\ app = NoApp
    /\ otherCollection = NoCollection
    /\ ret = NoValue

Returns(op, val) ==
    /\ lastOp.op = "init"
    /\ ret' = [kind |-> "double", val |-> val]
    /\ lastOp' = Op(op, 0, 0)
    /\ UNCHANGED <<heap, root, dataByMonth, result, inserted, otherBst, input>>
    /\ UNCHANGED <<app, otherCollection>>

CalculateMean == Returns("calculateMean", calculateMean(input.x))

CalculateStdDev == Returns("calculateStdDev", calculateStdDev(input.x))

CalculateMAD == Returns("calculateMAD", calculateMAD(input.x))

CalculateSPCC == Returns("calculateSPCC", calculateSPCC(input.x, input.y))

NextStats ==
    \/ CalculateMean
    \/ CalculateStdDev
    \/ CalculateMAD
    \/ CalculateSPCC

SpecStats == InitStats /\ [][NextStats]_vars

\* ---- real numbers m * 2^e, computed without rounding ----

XInt(k) == [neg |-> k < 0, m |-> FromInt(IF k < 0 THEN 0 - k ELSE k), e |-> 0]

XNeg(a) == [neg |-> ~ a.neg, m |-> a.m, e |-> a.e]

XAbs(a) == [neg |-> FALSE, m |-> a.m, e |-> a.e]

XSub(a, b) == ExactAdd(a, XNeg(b))

\* a <= b
XLe(a, b) == LET d == XSub(a, b) IN d.m = << >> \/ d.neg

RECURSIVE XSum(_)
XSum(seq) == IF seq = << >> THEN XInt(0) ELSE ExactAdd(Head(seq), XSum(Tail(seq)))

\* a and b differ by at most 2^-40 of 1 + |a| + |b|: equal as far as the
\* rounding of a few double operations goes
Near(a, b) ==
    XLe(XAbs(XSub(a, b)),
        ExactMul([neg |-> FALSE, m |-> << 1 >>, e |-> -40],
                 ExactAdd(XInt(1), ExactAdd(XAbs(a), XAbs(b)))))

\* sum of x, sum of x^2 and sum of |n*x - sum| over a vector
SumOf(xs) == XSum(xs)

SumSqOf(xs) == XSum([i \in 1..Len(xs) |-> ExactMul(xs[i], xs[i])])

SumAbsDevOf(xs) ==
    XSum([i \in 1..Len(xs) |->
             XAbs(XSub(ExactMul(XInt(Len(xs)), xs[i]), SumOf(xs)))])

IsConstant(xs) == \A i, j \in 1..Len(xs) : xs[i] = xs[j]

\* C20: calculateSPCC returns 0.0 when the lengths differ, when there are
\* fewer than 2 values and when one of the series is constant; in every
\* other case the value returned lies in [-1, 1]; it is 1.0 for
\* ([1,2,3],[2,4,6]) and -1.0 for ([1,2,3],[3,2,1]).
C20_CorrelationGuardsAndRange ==
    lastOp.op = "calculateSPCC" =>
        LET x == input.x
            y == input.y
            r == ret.val
        IN  /\ (Len(x) # Len(y) \/ Len(x) < 2) => r = Zero
            /\ (Len(x) = Len(y) /\ Len(x) >= 2 /\ (IsConstant(x) \/ IsConstant(y))) =>
                   r = Zero
            /\ ~ IsNaN(r)
            /\ ~ flt(IntToD(1), r)
            /\ ~ flt(r, IntToD(-1))
            /\ (x = <<IntToD(1), IntToD(2), IntToD(3)>>
                  /\ y = <<IntToD(2), IntToD(4), IntToD(6)>>) => r = IntToD(1)
            /\ (x = <<IntToD(1), IntToD(2), IntToD(3)>>
                  /\ y = <<IntToD(3), IntToD(2), IntToD(1)>>) => r = IntToD(-1)

\* ========================================================================
\* Composite operations of WeatherDataCollection: calculateSPCC, the two
\* displays and generateMonthlyStats (WeatherDataCollection.cpp)
\* ========================================================================

\* A measurement of a record is held as the whole number whose double it
\* is; x.push_back(r->field) over the records of a result, in its order
FieldOf(h, vec, field) ==
    [i \in 1..Len(h[vec].elems) |-> IntToD(h[h[vec].elems[i]][field])]

\* for (WeatherRecord* rec : *v) delete rec; delete v;   (~WeatherRecord
\* deletes its date)
ReleaseResult(h, vec) ==
    LET recs == {h[vec].elems[i] : i \in 1..Len(h[vec].elems)}
    IN  Delete(h, recs \cup {h[r].date : r \in recs} \cup {vec})

\* std::string monthNames[12]
monthNames ==
    << "January", "February", "March", "April", "May", "June", "July",
       "August", "September", "October", "November", "December" >>

\* a line of the report, by its columns (the text of a number is left to
\* the stream that writes it)
YearLine(year) == [kind |-> "year", year |-> year]
HeaderLine == [kind |-> "header"]
NoDataLine(m) == [kind |-> "nodata", month |-> monthNames[m]]

\* a data row that ends with the mean of the solar radiation
MonthLine_MeanSolar(h, monthData, m) ==
    LET winds  == FieldOf(h, monthData, "windSpeed")
        temps  == FieldOf(h, monthData, "temperature")
        solars == FieldOf(h, monthData, "solarRadiation")
    IN  [kind |-> "data", month |-> monthNames[m],
         meanWind |-> calculateMean(winds), stdWind |-> calculateStdDev(winds),
         madWind |-> calculateMAD(winds),
         meanTemp |-> calculateMean(temps), stdTemp |-> calculateStdDev(temps),
         madTemp |-> calculateMAD(temps),
         totalSolar |-> calculateMean(solars)]

\* the data row of generateMonthlyStats for a month that has records;
\* std::accumulate(solars.begin(), solars.end(), 0.0) adds the elements in
\* order, as the loop of calculateMean does
MonthLine(h, monthData, m) ==
    LET winds  == FieldOf(h, monthData, "windSpeed")
        temps  == FieldOf(h, monthData, "temperature")
        solars == FieldOf(h, monthData, "solarRadiation")
    IN  [kind |-> "data", month |-> monthNames[m],
         meanWind |-> calculateMean(winds), stdWind |-> calculateStdDev(winds),
         madWind |-> calculateMAD(winds),
         meanTemp |-> calculateMean(temps), stdTemp |-> calculateStdDev(temps),
         madTemp |-> calculateMAD(temps),
         totalSolar |-> SumLoop(solars, 1, Zero)]

\* what a month loop (generateMonthlyStats, displayMonthlyTemperatures)
\* leaves of the vector a query returned: it is deleted at the end of the
\* iteration; the `continue` of a month without data comes before that
AfterMonth(q) ==
    IF q.ret = NULL \/ q.heap[q.ret].elems = << >> THEN q.heap
    ELSE ReleaseResult(q.heap, q.ret)

\* getDataForYearMonth(year, m) of the iterations lo..hi of a month loop,
\* each on the heap the iteration before left (the first half of the
\* iterations, then the second half): s.qs gains the heap and the vector
\* of each query, s.heap is the heap after the last iteration
RECURSIVE MonthQueries(_, _, _, _, _)
MonthQueries(s, rt, year, lo, hi) ==
    IF lo = hi
    THEN CHOOSE v \in { [heap |-> AfterMonth(q), qs |-> Append(s.qs, q)]
                        : q \in { getDataForYearMonth(s.heap, rt, year, lo) } } : TRUE
    ELSE CHOOSE v \in { MonthQueries(first, rt, year, lo + (hi - lo) \div 2 + 1, hi)
                        : first \in { MonthQueries(s, rt, year, lo,
                                                   lo + (hi - lo) \div 2) } } : TRUE

\* the row generateMonthlyStats writes for month m from the vector q.ret
MonthRow(q, m) ==
    IF q.ret = NULL \/ q.heap[q.ret].elems = << >> THEN NoDataLine(m)
    ELSE MonthLine(q.heap, q.ret, m)

\* WeatherDataCollection::generateMonthlyStats: the heap and the lines
\* written; isOpen is out.is_open()
generateMonthlyStats(h, rt, year, isOpen) ==
    IF ~ isOpen THEN [heap |-> h, out |-> << >>]
    ELSE CHOOSE v \in {
             [heap |-> s.heap,
              out  |-> << YearLine(year), HeaderLine >>
                       \o [m \in 1..12 |-> MonthRow(s.qs[m], m)]]
             : s \in { MonthQueries([heap |-> h, qs |-> << >>], rt, year, 1, 12) } }
             : TRUE

\* the tokens a caller may pass as correlation type; the last is none of
\* the three the code knows
CorrelationTypes == {"S_T", "S_R", "T_R", "T_S"}

\* the vectors x and y filled from two fields of the records, handed to
\* Statistics::calculateSPCC(&x, &y)
Correlate(h, records, xField, yField) ==
    Only({ calculateSPCC(x, y)
           : x \in { FieldOf(h, records, xField) },
             y \in { FieldOf(h, records, yField) } })

\* the if / else-if chain on *type: the fields that fill x and y, none for
\* a type that is none of the three
PairedFields(type) ==
    IF type = "S_T" THEN << "solarRadiation", "temperature" >>
    ELSE IF type = "S_R" THEN << "solarRadiation", "windSpeed" >>
    ELSE IF type = "T_R" THEN << "temperature", "windSpeed" >>
    ELSE << >>

\* calculateSPCC of the collection that takes the month over all years
\* whatever the year is
WeatherDataCollection_calculateSPCC_AllYears(h, rt, year, month, type) ==
    IF month < 1 \/ month > 12 THEN [heap |-> h, ret |-> Zero]
    ELSE Only({ IF q.ret = NULL \/ q.heap[q.ret].elems = << >>
                THEN [heap |-> q.heap, ret |-> Zero]
                ELSE IF PairedFields(type) = << >>
                THEN [heap |-> q.heap, ret |-> Zero]
                ELSE [heap |-> ReleaseResult(q.heap, q.ret),
                      ret  |-> Correlate(q.heap, q.ret, PairedFields(type)[1],
                                         PairedFields(type)[2])]
                : q \in { getDataForMonth(h, rt, month) } })

\* WeatherDataCollection::calculateSPCC(year, month, type): the heap after
\* the call and the double returned.  The two early returns after the query
\* release nothing.
WeatherDataCollection_calculateSPCC(h, rt, year, month, type) ==
    IF month < 1 \/ month > 12 THEN [heap |-> h, ret |-> Zero]
    ELSE Only({ IF q.ret = NULL \/ q.heap[q.ret].elems = << >>
                THEN [heap |-> q.heap, ret |-> Zero]
                ELSE IF PairedFields(type) = << >>
                THEN [heap |-> q.heap, ret |-> Zero]
                ELSE [heap |-> ReleaseResult(q.heap, q.ret),
                      ret  |-> Correlate(q.heap, q.ret, PairedFields(type)[1],
                                         PairedFields(type)[2])]
                : q \in { IF year = 0 THEN getDataForMonth(h, rt, month)
                          ELSE getDataForSpecificMonthYear(h, rt, year, month) } })

\* WeatherDataCollection::displayAverageWindSpeed: the heap after the call
\* and the line printed; the return for an empty result releases nothing
displayAverageWindSpeed(h, rt, year, month) ==
    Only({ IF q.ret = NULL \/ q.heap[q.ret].elems = << >>
           THEN [heap |-> q.heap,
                 out  |-> [kind |-> "nodata", month |-> month, year |-> year]]
           ELSE Only({ [heap |-> ReleaseResult(q.heap, q.ret),
                        out  |-> [kind |-> "wind", month |-> month, year |-> year,
                                  mean  |-> calculateMean(winds),
                                  stdev |-> calculateStdDev(winds)]]
                       : winds \in { FieldOf(q.heap, q.ret, "windSpeed") } })
           : q \in { getDataForYearMonth(h, rt, year, month) } })

\* the line displayMonthlyTemperatures prints for month m from the
\* vector q.ret
TemperatureRow(q, m) ==
    IF q.ret = NULL \/ q.heap[q.ret].elems = << >> THEN NoDataLine(m)
    ELSE CHOOSE v \in { [kind  |-> "temperature",
                         month |-> monthNames[m],
                         mean  |-> calculateMean(temps),
                         stdev |-> calculateStdDev(temps)]
                        : temps \in { FieldOf(q.heap, q.ret, "temperature") } } : TRUE

\* WeatherDataCollection::displayMonthlyTemperatures
displayMonthlyTemperatures(h, rt, year) ==
    CHOOSE v \in {
        [heap |-> s.heap,
         out  |-> << YearLine(year) >> \o [m \in 1..12 |-> TemperatureRow(s.qs[m], m)]]
        : s \in { MonthQueries([heap |-> h, qs |-> << >>], rt, year, 1, 12) } } : TRUE

\* WeatherDataCollection::getTotalRecords
getTotalRecords(h, rt) == sizeRec(h, rt)

\* WeatherDataCollection::displayAllData: the count and the records printed
displayAllData(h, rt) ==
    [total   |-> getTotalRecords(h, rt),
     records |-> [i \in 1..Len(inOrderRec(h, rt)) |->
                     Content(h, inOrderRec(h, rt)[i])]]

\* ---- the stores the operations are called on ----

\* a row handed to the collection: its timestamp and its
\* <<windSpeed, temperature, solarRadiation>>
Reading3(date, m) == [date |-> date, m |-> m]

June20a == Reading3(Date(1, 6, 2020, 0, 0), <<1, 5, 3>>)
June20b == Reading3(Date(1, 6, 2020, 0, 30), <<2, 3, 6>>)
June20c == Reading3(Date(2, 6, 2020, 9, 0), <<4, 4, 4>>)
June20aAgain == Reading3(Date(1, 6, 2020, 0, 0), <<9, 9, 9>>)
June19 == Reading3(Date(1, 6, 2019, 0, 0), <<3, 9, 1>>)
July20 == Reading3(Date(2, 7, 2020, 9, 0), <<5, 7, 2>>)
JuneBC1 == Reading3(Date(1, 6, -1, 0, 0), <<1, 2, 3>>)
JuneBC2 == Reading3(Date(2, 6, -1, 0, 0), <<2, 1, 5>>)
Month13 == Reading3(Date(1, 13, 2020, 0, 0), <<7, 7, 7>>)

\* the sequences of rows ingested before the operation: none, one row,
\* one month out of order with a second month, two years of one month, a
\* year below 1, a repeated timestamp, a month above 12
StoreFills ==
    { << >>,
      << June20b >>,
      << June20b, June20a, June20c, July20 >>,
      << June19, June20b, June20a >>,
      << JuneBC2, JuneBC1, June20a >>,
      << June20a, June20aAgain, June20b >>,
      << Month13, June20a >> }

\* the records of loadFromFiles's staging vector for the rows
RECURSIVE NewRecords(_, _, _)
NewRecords(h, staged, fill) ==
    IF fill = << >> THEN [heap |-> h, staged |-> staged]
    ELSE Only({ NewRecords(r.heap, Append(staged, r.ret), Tail(fill))
                : r \in { NewRecord(h, Head(fill).date, Head(fill).m) } })

\* arguments of the operations
OpYears == {0, 2020, -1}
OpMonths == {6, 7, 13}

\* a collection that has ingested the rows of one of the fills
InitQuery ==
    /\ \E fill \in StoreFills :
       \E st \in { NewRecords(<< >>, << >>, fill) } :
       \E r \in { InsertAll(st.heap, NULL, << >>, st.staged) } :
           /\ heap = r.heap
           /\ root = r.root
           /\ dataByMonth = r.dataByMonth
           /\ inserted = [i \in 1..Len(st.staged) |-> Content(st.heap, st.staged[i])]
    /\ result = NoResult
    /\ lastOp = Op("init", 0, 0)
    /\ otherBst = NoOther
    /\ app = NoApp
    /\ otherCollection = NoCollection
    /\ input = NoValue
    /\ ret = NoValue

\* one call of generateMonthlyStats(&year, &filename)
GenerateMonthlyStats(year, isOpen) ==
    /\ lastOp.op = "init"
    /\ \E r \in { generateMonthlyStats(heap, root, year, isOpen) } :
           /\ heap' = r.heap
           /\ ret' = [kind |-> "report", out |-> r.out]
    /\ input' = [kind |-> "report", year |-> year, isOpen |-> isOpen]
    /\ lastOp' = Op("generateMonthlyStats", year, 0)
    /\ UNCHANGED <<root, dataByMonth, result, inserted, otherBst>>
    /\ UNCHANGED <<app, otherCollection>>

\* one call of calculateSPCC(&year, &month, &type) on the collection
CollectionCalculateSPCC(year, month, type) ==
    /\ lastOp.op = "init"
    /\ \E r \in { WeatherDataCollection_calculateSPCC(heap, root, year, month, type) } :
           /\ heap' = r.heap
           /\ ret' = [kind |-> "double", val |-> r.ret]
    /\ input' = [kind |-> "correlation", type |-> type]
    /\ lastOp' = Op("collection.calculateSPCC", year, month)
    /\ UNCHANGED <<root, dataByMonth, result, inserted, otherBst>>
    /\ UNCHANGED <<app, otherCollection>>

\* one call of displayAverageWindSpeed(&month, &year)
DisplayAverageWindSpeed(year, month) ==
    /\ lastOp.op = "init"
    /\ \E r \in { displayAverageWindSpeed(heap, root, year, month) } :
           /\ heap' = r.heap
           /\ ret' = [kind |-> "printed", out |-> << r.out >>]
    /\ input' = [kind |-> "display"]
    /\ lastOp' = Op("displayAverageWindSpeed", year, month)
    /\ UNCHANGED <<root, dataByMonth, result, inserted, otherBst>>
    /\ UNCHANGED <<app, otherCollection>>

\* one call of displayMonthlyTemperatures(&year)
DisplayMonthlyTemperatures(year) ==
    /\ lastOp.op = "init"
    /\ \E r \in { displayMonthlyTemperatures(heap, root, year) } :
           /\ heap' = r.heap
           /\ ret' = [kind |-> "printed", out |-> r.out]
    /\ input' = [kind |-> "display"]
    /\ lastOp' = Op("displayMonthlyTemperatures", year, 0)
    /\ UNCHANGED <<root, dataByMonth, result, inserted, otherBst>>
    /\ UNCHANGED <<app, otherCollection>>

NextQuery ==
    \/ \E year \in OpYears, isOpen \in BOOLEAN : GenerateMonthlyStats(year, isOpen)
    \/ \E year \in OpYears, month \in OpMonths, type \in CorrelationTypes :
           CollectionCalculateSPCC(year, month, type)
    \/ \E year \in OpYears, month \in OpMonths : DisplayAverageWindSpeed(year, month)
    \/ \E year \in OpYears : DisplayMonthlyTemperatures(year)

SpecQuery == InitQuery /\ [][NextQuery]_vars

\* the stored records of a year and month, by value
StoredOf(year, month) ==
    {c \in StoredContents : c.date.year = year /\ c.date.month = month}

\* the whole-number sum of a field over a set of records
RECURSIVE TotalOf(_, _)
TotalOf(S, field) ==
    IF S = {} THEN 0
    ELSE Only({ c[field] + TotalOf(S \ {c}, field) : c \in { CHOOSE c \in S : TRUE } })

RECURSIVE Ascending(_)
Ascending(S) ==
    IF S = {} THEN << >>
    ELSE Only({ << c >> \o Ascending(S \ {c})
                : c \in { CHOOSE c \in S :
                            \A o \in S \ {c} : Precedes(Stamp(c.date), Stamp(o.date)) } })

\* the two measurements a correlation type pairs
PairOf(type) ==
    CASE type = "S_T" -> << "solarRadiation", "temperature" >>
      [] type = "S_R" -> << "solarRadiation", "windSpeed" >>
      [] type = "T_R" -> << "temperature", "windSpeed" >>

\* the coefficient of a pair of measurements over a set of stored records
CorrelationOver(recs, type) ==
    LET seq == Ascending(recs)
    IN  calculateSPCC([i \in 1..Len(seq) |-> IntToD(seq[i][PairOf(type)[1]])],
                      [i \in 1..Len(seq) |-> IntToD(seq[i][PairOf(type)[2]])])

KnownTypes == {"S_T", "S_R", "T_R"}

\* C22 as stated: the coefficient is that of the stored records of the
\* month over all years when year is 0 and of the records of that year and
\* month for every other year, on the pair the type selects; it is 0.0
\* when the month is outside 1..12, when the type is none of the three and
\* when no record matches.
C22_CorrelatesYearOrAllYears ==
    lastOp.op = "collection.calculateSPCC" =>
        LET recs == IF lastOp.year = 0
                    THEN {c \in StoredContents : c.date.month = lastOp.month}
                    ELSE StoredOf(lastOp.year, lastOp.month)
        IN  IF ~ ValidMonth(lastOp.month) \/ input.type \notin KnownTypes \/ recs = {}
            THEN ret.val = Zero
            ELSE ret.val = CorrelationOver(recs, input.type)

\* C22 (amended): as stated for year 0 and for every year from 1 on; for a
\* year below 0 the coefficient is 0.0 whatever the store holds.
C22_CorrelatesPositiveYearOrAllYears ==
    lastOp.op = "collection.calculateSPCC" =>
        LET recs == IF lastOp.year = 0
                    THEN {c \in StoredContents : c.date.month = lastOp.month}
                    ELSE StoredOf(lastOp.year, lastOp.month)
        IN  IF \/ ~ ValidMonth(lastOp.month)
               \/ input.type \notin KnownTypes
               \/ recs = {}
               \/ lastOp.year < 0
            THEN ret.val = Zero
            ELSE ret.val = CorrelationOver(recs, input.type)

\* June 2020 was asked for on temperature and wind speed while the store
\* holds June 2019 as well
C22_Witness ==
    /\ lastOp = Op("collection.calculateSPCC", 2020, 6)
    /\ input.type = "T_R"
    /\ Cardinality(StoredOf(2020, 6)) = 2
    /\ StoredOf(2019, 6) # {}
    /\ ret.val # Zero
    /\ ret.val # CorrelationOver({c \in StoredContents : c.date.month = 6}, "T_R")

\* ========================================================================
\* Assignment2App: the menu loop (Assignment2App.cpp)
\* ========================================================================

\* number of menu choices of a run that are explored
MaxChoices == 3

\* what the user types: the list files named at option 1 and the years and
\* months entered at the prompts (the prompts are answered with numbers)
AppLists == { << LineMissing >>, << LineA >> }
AppYears == {2020}
AppMonths == {7, 13}

\* Assignment2App::Assignment2App() followed by run(): an empty collection,
\* dataLoaded false, the loop about to read a choice; `choices` counts the
\* choices processed
InitApp ==
    /\ heap = << >>
    /\ root = NULL
    /\ dataByMonth = << >>
    /\ result = NoResult
    /\ lastOp = Op("init", 0, 0)
    /\ inserted = << >>
    /\ otherBst = NoOther
    /\ app = [running |-> TRUE, dataLoaded |-> FALSE, choices |-> 0]
    /\ otherCollection = NoCollection
    /\ input = NoValue
    /\ ret = NoValue

\* the outcome of processChoice: the choice and whether its handler called
\* the collection
Menu(choice, reached) == [kind |-> "menu", choice |-> choice, reached |-> reached]

\* do { cin >> choice; processChoice(choice); } while (choice != 7): one
\* more choice is read
ReadChoice(choice) ==
    /\ app.running
    /\ app.choices < MaxChoices
    /\ lastOp' = Op("processChoice", 0, choice)
    /\ UNCHANGED <<result, otherBst, otherCollection>>

\* case 1: Assignment2App::loadData
AppLoadData(listOpen, list) ==
    /\ ReadChoice(1)
    /\ \E names \in { [i \in 1..Len(list) |-> list[i].text] } :
       \E st \in { Staged(heap, listOpen, names) } :
       \E perm \in Perms(Len(st.staged)) :
       \E r \in { loadFromFiles(heap, root, dataByMonth, listOpen, names, perm) } :
           /\ heap' = r.heap
           /\ root' = r.root
           /\ dataByMonth' = r.dataByMonth
           /\ inserted' = inserted \o
                  [i \in 1..Len(st.staged) |-> Content(st.heap, st.staged[perm[i]])]
    /\ app' = [app EXCEPT !.dataLoaded = TRUE, !.choices = @ + 1]
    /\ input' = [kind |-> "list", open |-> listOpen, list |-> list]
    /\ ret' = Menu(1, TRUE)

\* case 2: Assignment2App::displayAverageWindSpeed
AppDisplayAverageWindSpeed(year, month) ==
    /\ ReadChoice(2)
    /\ IF ~ app.dataLoaded
       THEN /\ heap' = heap
            /\ ret' = Menu(2, FALSE)
       ELSE \E r \in { displayAverageWindSpeed(heap, root, year, month) } :
                /\ heap' = r.heap
                /\ ret' = Menu(2, TRUE)
    /\ app' = [app EXCEPT !.choices = @ + 1]
    /\ input' = [kind |-> "prompt", year |-> year, month |-> month]
    /\ UNCHANGED <<root, dataByMonth, inserted>>

\* case 3: Assignment2App::displayMonthlyTemperatures
AppDisplayMonthlyTemperatures(year) ==
    /\ ReadChoice(3)
    /\ IF ~ app.dataLoaded
       THEN /\ heap' = heap
            /\ ret' = Menu(3, FALSE)
       ELSE \E r \in { displayMonthlyTemperatures(heap, root, year) } :
                /\ heap' = r.heap
                /\ ret' = Menu(3, TRUE)
    /\ app' = [app EXCEPT !.choices = @ + 1]
    /\ input' = [kind |-> "prompt", year |-> year, month |-> 0]
    /\ UNCHANGED <<root, dataByMonth, inserted>>

\* the calculateSPCC calls of Assignment2App::calculateCorrelations, one
\* after the other with year 0: the heap after the last of them
RECURSIVE CorrelationsFrom(_, _, _, _)
CorrelationsFrom(h, rt, month, types) ==
    IF types = << >> THEN h
    ELSE Only({ CorrelationsFrom(r.heap, rt, month, Tail(types))
                : r \in { WeatherDataCollection_calculateSPCC(h, rt, 0, month, Head(types)) } })

\* case 4: Assignment2App::calculateCorrelations: year 0 and the three
\* types in turn, after the month was checked
AppCalculateCorrelations(month) ==
    /\ ReadChoice(4)
    /\ IF ~ app.dataLoaded \/ month < 1 \/ month > 12
       THEN /\ heap' = heap
            /\ ret' = Menu(4, FALSE)
       ELSE /\ heap' = CorrelationsFrom(heap, root, month, << "S_T", "S_R", "T_R" >>)
            /\ ret' = Menu(4, TRUE)
    /\ app' = [app EXCEPT !.choices = @ + 1]
    /\ input' = [kind |-> "prompt", year |-> 0, month |-> month]
    /\ UNCHANGED <<root, dataByMonth, inserted>>

\* case 5: Assignment2App::generateReport
AppGenerateReport(year, isOpen) ==
    /\ ReadChoice(5)
    /\ IF ~ app.dataLoaded
       THEN /\ heap' = heap
            /\ ret' = Menu(5, FALSE)
       ELSE \E r \in { generateMonthlyStats(heap, root, year, isOpen) } :
                /\ heap' = r.heap
                /\ ret' = Menu(5, TRUE)
    /\ app' = [app EXCEPT !.choices = @ + 1]
    /\ input' = [kind |-> "prompt", year |-> year, month |-> 0]
    /\ UNCHANGED <<root, dataByMonth, inserted>>

\* case 6: Assignment2App::displayData
AppDisplayData ==
    /\ ReadChoice(6)
    /\ ret' = Menu(6, app.dataLoaded)
    /\ app' = [app EXCEPT !.choices = @ + 1]
    /\ input' = NoValue
    /\ UNCHANGED <<heap, root, dataByMonth, inserted>>

\* case 7: the loop ends
AppExit ==
    /\ ReadChoice(7)
    /\ ret' = Menu(7, FALSE)
    /\ app' = [app EXCEPT !.running = FALSE, !.choices = @ + 1]
    /\ input' = NoValue
    /\ UNCHANGED <<heap, root, dataByMonth, inserted>>

\* default: "Invalid choice! Try again."
AppInvalidChoice(choice) ==
    /\ choice \notin 1..7
    /\ ReadChoice(choice)
    /\ ret' = Menu(choice, FALSE)
    /\ app' = [app EXCEPT !.choices = @ + 1]
    /\ input' = NoValue
    /\ UNCHANGED <<heap, root, dataByMonth, inserted>>

NextApp ==
    \/ AppLoadData(FALSE, << >>)
    \/ \E list \in AppLists : AppLoadData(TRUE, list)
    \/ \E year \in AppYears, month \in AppMonths : AppDisplayAverageWindSpeed(year, month)
    \/ \E year \in AppYears : AppDisplayMonthlyTemperatures(year)
    \/ \E month \in AppMonths : AppCalculateCorrelations(month)
    \/ \E year \in AppYears, isOpen \in BOOLEAN : AppGenerateReport(year, isOpen)
    \/ AppDisplayData
    \/ AppExit
    \/ \E choice \in {0, 8} : AppInvalidChoice(choice)

SpecApp == InitApp /\ [][NextApp]_vars

\* C23: an analysis, report or display option (choices 2 to 6) calls the
\* collection only when dataLoaded is true, and dataLoaded is true only
\* when a load has brought at least one record to the collection: after a
\* load whose list file did not open, or that parsed no record, the
\* options are still refused.
C23_OptionsNeedLoadedData ==
    /\ (ret.kind = "menu" /\ ret.choice \in 2..6 /\ ret.reached) => app.dataLoaded
    /\ app.dataLoaded => inserted # << >>

\* ========================================================================
\* Shape of the tree after inserts (Bst.h)
\* ========================================================================

\* the timestamps of a sequence of records are strictly ascending, or
\* strictly descending
StrictlyAscending(seq) ==
    \A i \in 1..(Len(seq) - 1) :
        Precedes(Stamp(seq[i].date), Stamp(seq[i + 1].date))

StrictlyDescending(seq) ==
    \A i \in 1..(Len(seq) - 1) :
        Precedes(Stamp(seq[i + 1].date), Stamp(seq[i].date))

\* C24: an insert of a timestamp the store does not hold adds exactly one
\* node, a leaf, hung on a link that was null; every existing node keeps
\* its record and each of its links that was not null, and no other link
\* changes.  After records inserted in strictly ascending or strictly
\* descending timestamp order height() is their number minus one (-1 for
\* the empty store).
C24_Step ==
    LET old   == NodesOf(heap, root)
        new   == NodesOf(heap', root')
        isNew == /\ lastOp'.op = "insert"
                 /\ input'.into = "this"
                 /\ \A i \in 1..Len(inserted) :
                        inserted[i].date # inserted'[Len(inserted')].date
    IN  /\ isNew =>
              /\ old \subseteq new
              /\ Cardinality(new \ old) = 1
              /\ \A leaf \in new \ old :
                    /\ leaf \notin DOMAIN heap
                    /\ heap'[leaf].left = NULL
                    /\ heap'[leaf].right = NULL
                    /\ Content(heap', heap'[leaf].data) = inserted'[Len(inserted')]
                    /\ IF root = NULL THEN root' = leaf
                       ELSE /\ root' = root
                            /\ Cardinality({n \in old : heap'[n] # heap[n]}) = 1
                            /\ \A n \in old :
                                  /\ heap'[n].data = heap[n].data
                                  /\ heap'[n].left # heap[n].left =>
                                         heap[n].left = NULL /\ heap'[n].left = leaf
                                  /\ heap'[n].right # heap[n].right =>
                                         heap[n].right = NULL /\ heap'[n].right = leaf
        /\ (StrictlyAscending(inserted) \/ StrictlyDescending(inserted)) =>
              heightRec(heap, root) = Len(inserted) - 1
        /\ (StrictlyAscending(inserted') \/ StrictlyDescending(inserted')) =>
              heightRec(heap', root') = Len(inserted') - 1

C24_InsertNeverRebalances == [][C24_Step]_vars

\* three records inserted in ascending order: a chain of right links
C24_Witness ==
    /\ lastOp.op = "insert"
    /\ Len(inserted) = 3
    /\ StrictlyAscending(inserted)
    /\ height = 2
    /\ heap[root].left = NULL
    /\ heap[heap[root].right].left = NULL

\* ========================================================================
\* Ingestion: what reaches the store (WeatherDataCollection.cpp, Bst.h)
\* ========================================================================

\* number of references to a record in a month index
Occurrences(idx, record) ==
    Cardinality(UNION { { <<m, i>> : i \in { k \in 1..Len(idx[m]) : idx[m][k] = record } }
                        : m \in DOMAIN idx })

\* the timestamps of the records passed to insert so far
StampsInserted == { Stamp(inserted[i].date) : i \in 1..Len(inserted) }

\* C25: size() and getTotalRecords() equal the number of distinct
\* timestamps among the records passed to insert; a load hands each record
\* it staged to addWeatherRecord (hence to insert) exactly once: the staged
\* records are distinct objects, none is in the month index before the load
\* and each is in it once after.
C25_Step ==
    /\ sizeRec(heap', root') = Cardinality(StampsInserted')
    /\ getTotalRecords(heap', root') = Cardinality(StampsInserted')
    /\ lastOp'.op = "load" =>
          LET names  == [i \in 1..Len(input'.list) |-> input'.list[i].text]
              staged == Staged(heap, input'.open, names).staged
          IN  /\ Len(staged) = Len(ret'.staged)
              /\ \A j, k \in 1..Len(staged) : staged[j] = staged[k] => j = k
              /\ \A k \in 1..Len(staged) :
                    /\ Occurrences(dataByMonth, staged[k]) = 0
                    /\ Occurrences(dataByMonth', staged[k]) = 1
              /\ Len(inserted') = Len(inserted) + Len(staged)

C25_SizeCountsDistinctTimestamps == [][C25_Step]_vars

\* a load that staged the same timestamp twice: one of the two is dropped
C25_Witness ==
    /\ lastOp.op = "load"
    /\ Len(ret.staged) = 2
    /\ ret.staged[1].date = ret.staged[2].date
    /\ Len(inserted) = 3
    /\ size = 2
    /\ Cardinality(StampsInserted) = 2

\* the records a tree holds, by value
ContentsOf(h, rt) == { Content(h, h[n].data) : n \in NodesOf(h, rt) }

\* C27: for the rows a load reads, the records the store holds afterwards
\* (timestamps and the measurements kept for each) are the same whichever
\* permutation the shuffle leaves the staged records in.
C27_Step ==
    (lastOp'.op = "load" /\ input'.open) =>
        LET names == [i \in 1..Len(input'.list) |-> input'.list[i].text]
        IN  \A perm \in Perms(Len(ret'.staged)) :
                \A r \in { loadFromFiles(heap, root, dataByMonth, TRUE, names, perm) } :
                    ContentsOf(r.heap, r.root) = ContentsOf(heap', root')

C27_ShuffleDoesNotShowInStore == [][C27_Step]_vars

\* the records passed to insert that carry the sentinel timestamp, in the
\* order they were passed
SentinelInserted == SelectSeq(inserted, LAMBDA c : c.date = Sentinel)

\* C30: the store holds at most one record with the timestamp 1/1/1900
\* 00:00; when rows with a malformed timestamp were ingested it holds
\* exactly one, with the measurements of the first of them that reached
\* insert, and the measurements of the others are in no stored record.
C30_SentinelKeyHeldOnce ==
    LET held == { r \in StoreRecords : Content(heap, r).date = Sentinel }
    IN  /\ Cardinality(held) <= 1
        /\ SentinelInserted # << >> =>
              /\ Cardinality(held) = 1
              /\ \A r \in held : Content(heap, r) = SentinelInserted[1]
              /\ \A i \in 2..Len(SentinelInserted) :
                     SentinelInserted[i] # SentinelInserted[1] =>
                         SentinelInserted[i] \notin StoredContents

\* three rows with malformed timestamps and different measurements were
\* ingested by one load
C30_Witness ==
    /\ lastOp.op = "load"
    /\ input.list = << LineD >>
    /\ Len(SentinelInserted) = 3
    /\ Cardinality({ SentinelInserted[i] : i \in 1..3 }) = 3
    /\ Cardinality({ r \in StoreRecords : Content(heap, r).date = Sentinel }) = 1
    /\ SentinelInserted[1].windSpeed = 12

\* ========================================================================
\* Order of the query results (WeatherDataCollection.cpp, Bst.h)
\* ========================================================================

QueryOps == {"getDataForMonth", "getDataForYearMonth", "getDataForSpecificMonthYear"}

\* the stored records a query is to return: those of the month (and year)
\* asked for, none where the operation rejects its arguments
Matching(op, year, month) ==
    CASE op = "getDataForYearMonth" ->
             {c \in StoredContents : c.date.year = year /\ c.date.month = month}
      [] op = "getDataForMonth" ->
             {c \in StoredContents : ValidMonth(month) /\ c.date.month = month}
      [] OTHER ->
             {c \in StoredContents : /\ ValidMonth(month) /\ year >= 1
                                     /\ c.date.year = year /\ c.date.month = month}

\* the result a caller holds, by value, in the order returned
ResultSequence == [i \in 1..Len(ResultElems) |-> Content(heap, ResultElems[i])]

\* C28: the sequence returned by each of the three queries is in strictly
\* ascending timestamp order and holds every matching stored record, each
\* once, and nothing else, whatever the order of the inserts.
C28_ResultsAscendingAndComplete ==
    lastOp.op \in QueryOps =>
        /\ result.held
        /\ \A i \in 1..(Len(ResultSequence) - 1) :
               Precedes(Stamp(ResultSequence[i].date), Stamp(ResultSequence[i + 1].date))
        /\ { ResultSequence[i] : i \in 1..Len(ResultSequence) }
               = Matching(lastOp.op, lastOp.year, lastOp.month)
        /\ Len(ResultSequence) = Cardinality(Matching(lastOp.op, lastOp.year, lastOp.month))

\* three records of June inserted latest first and returned earliest first
C28_Witness ==
    /\ lastOp = Op("getDataForMonth", 0, 6)
    /\ Len(ResultSequence) = 3
    /\ Len(inserted) = 3
    /\ Precedes(Stamp(inserted[3].date), Stamp(inserted[2].date))
    /\ Precedes(Stamp(inserted[2].date), Stamp(inserted[1].date))
    /\ ResultSequence[1] = inserted[3]

\* ========================================================================
\* Release of the query results inside the composite operations
\* (WeatherDataCollection.cpp)
\* ========================================================================

CompositeOps ==
    {"collection.calculateSPCC", "displayAverageWindSpeed",
     "displayMonthlyTemperatures", "generateMonthlyStats"}

\* C29: when one of the four operations returns, every result sequence it
\* obtained and every copied record in it has been released: the heap holds
\* what it held before the call.
C29_Step == lastOp'.op \in CompositeOps => heap' = heap

C29_QueryResultsReleased == [][C29_Step]_vars

\* ========================================================================
\* Copies of a WeatherDataCollection (WeatherDataCollection.cpp, Map.h)
\* ========================================================================

\* number of records handed to the first collection up to which a further
\* addWeatherRecord is explored
MaxStored == 4

CollectionNames == {"this", "other"}

\* timestamps and measurements of the records added next to the copies
CopyDates == { Date(3, 6, 2020, 0, 0), Date(1, 8, 2021, 0, 0) }

\* the tree and the month index of one of the two collections
CollectionOf(name) ==
    IF name = "this" THEN [root |-> root, dataByMonth |-> dataByMonth]
    ELSE [root |-> otherCollection.root, dataByMonth |-> otherCollection.dataByMonth]

\* the first collection has been destroyed
Destroyed == lastOp.op = "~WeatherDataCollection"

\* WeatherDataCollection(const WeatherDataCollection& other): the tree is
\* copied node by node with copies of the records; the std::map of vectors
\* of pointers is copied element by element, that is, the pointers are
\* copied
CollectionCopyConstruct ==
    /\ ~ Destroyed
    /\ ~ otherCollection.live
    /\ \E c \in { copyTreeRec(heap, root) } :
           /\ heap' = c.heap
           /\ otherCollection' = [live |-> TRUE, root |-> c.ret,
                                  dataByMonth |-> dataByMonth]
    /\ input' = [kind |-> "copy", dst |-> "other", src |-> "this"]
    /\ lastOp' = Op("collection.copyConstruct", 0, 0)
    /\ ret' = NoValue
    /\ UNCHANGED <<root, dataByMonth, result, inserted, otherBst, app>>

\* WeatherDataCollection::operator=
CollectionAssign(dst, src) ==
    /\ ~ Destroyed
    /\ otherCollection.live
    /\ IF dst # src
       THEN \E h1 \in { deleteTreeRec(heap, CollectionOf(dst).root) } :
            \E c \in { copyTreeRec(h1, CollectionOf(src).root) } :
                /\ heap' = c.heap
                /\ IF dst = "this"
                   THEN /\ root' = c.ret
                        /\ dataByMonth' = CollectionOf(src).dataByMonth
                        /\ UNCHANGED otherCollection
                   ELSE /\ otherCollection' =
                               [otherCollection EXCEPT !.root = c.ret,
                                    !.dataByMonth = CollectionOf(src).dataByMonth]
                        /\ UNCHANGED <<root, dataByMonth>>
       ELSE UNCHANGED <<heap, root, dataByMonth, otherCollection>>
    /\ input' = [kind |-> "copy", dst |-> dst, src |-> src]
    /\ lastOp' = Op("collection.assign", 0, 0)
    /\ ret' = NoValue
    /\ UNCHANGED <<result, inserted, otherBst, app>>

\* addWeatherRecord on the first collection
CollectionAdd(d, m) ==
    /\ ~ Destroyed
    /\ Len(inserted) < MaxStored
    /\ \E rec \in { NewRecord(heap, d, m) } :
       \E r \in { addWeatherRecord(rec.heap, root, dataByMonth, rec.ret) } :
           /\ heap' = r.heap
           /\ root' = r.root
           /\ dataByMonth' = r.dataByMonth
           /\ inserted' = Append(inserted, Content(rec.heap, rec.ret))
    /\ input' = NoValue
    /\ lastOp' = Op("addWeatherRecord", d.year, d.month)
    /\ ret' = NoValue
    /\ UNCHANGED <<result, otherBst, app, otherCollection>>

\* ~WeatherDataCollection of the first collection while the second lives
CollectionDestroy ==
    /\ ~ Destroyed
    /\ otherCollection.live
    /\ heap' = deleteTreeRec(heap, root)
    /\ root' = NULL
    /\ dataByMonth' = << >>
    /\ input' = NoValue
    /\ lastOp' = Op("~WeatherDataCollection", 0, 0)
    /\ ret' = NoValue
    /\ UNCHANGED <<result, inserted, otherBst, app, otherCollection>>

NextCopy ==
    \/ CollectionCopyConstruct
    \/ \E dst, src \in CollectionNames : CollectionAssign(dst, src)
    \/ \E d \in CopyDates : CollectionAdd(d, <<8, 8, 8>>)
    \/ CollectionDestroy

SpecCopy == InitQuery /\ [][NextCopy]_vars

\* the records the second collection's tree holds
CopyRecords == { heap[n].data : n \in NodesOf(heap, otherCollection.root) }

\* C26: every reference in the month index of a copy refers to a record of
\* the copy's own tree, none to a record of the source's tree, and none to
\* a released record, the source destroyed or not.
C26_CopyIndexRefersToOwnStore ==
    otherCollection.live =>
        \A m \in DOMAIN otherCollection.dataByMonth :
            \A i \in 1..Len(otherCollection.dataByMonth[m]) :
                LET r == otherCollection.dataByMonth[m][i]
                IN  /\ r \in DOMAIN heap
                    /\ r \in CopyRecords
                    /\ r \notin StoreRecords

====
